---------------------------- MODULE ReplayProofs ----------------------------
(***************************************************************************)
(* Proofs about Replay.tla, for a ring of any size, any sets of ids,       *)
(* addresses and values, and any trace that leaves a slot of it free.      *)
(***************************************************************************)
EXTENDS Replay, Arithmetic, SequenceTheorems

-----------------------------------------------------------------------------
(* The ring.                                                               *)

LEMMA RankIsBehind ==
  ASSUME q_head \in Slots, NEW i \in Slots
  PROVE  Rank(i) = Behind(LSQ_QUEUE_SIZE, q_head, i) /\ Rank(i) \in Slots
  BY RingAssumption, BehindIs DEF Rank, Behind, Slots

LEMMA AfterType ==
  ASSUME NEW i \in Slots
  PROVE  After(i) \in Slots
  BY RingAssumption, AfterIs DEF After, Slots

LEMMA HeldType == Held \in SUBSET Slots
  BY DEF Held

\* The head is held unless the ring is empty; the tail never is.
LEMMA HeadIsHeld ==
  ASSUME q_head \in Slots, q_tail \in Slots
  PROVE  /\ Rank(q_head) = 0
         /\ Rank(q_tail) = 0 <=> q_tail = q_head
         /\ q_head # q_tail => q_head \in Held
         /\ q_tail \notin Held
<1>1. Rank(q_head) = 0 /\ (Rank(q_tail) = 0 <=> q_tail = q_head)
  BY RankIsBehind, HeadIsFirst, RingAssumption DEF Slots
<1>2. Rank(q_tail) \in Nat
  BY RankIsBehind, RingAssumption DEF Slots
<1> QED BY <1>1, <1>2 DEF Held

\* An entry at the tail is one more entry, when that leaves a slot free.
LEMMA RingGrows ==
  ASSUME q_head \in Slots, q_tail \in Slots, Room,
         q_head' = q_head, q_tail' = After(q_tail)
  PROVE  /\ \A i \in Slots : Rank(i)' = Rank(i)
         /\ Rank(q_tail)' = Rank(q_tail) + 1
         /\ Held' = Held \cup {q_tail}
<1> DEFINE N == LSQ_QUEUE_SIZE
<1>1. \A i \in Slots : Rank(i)' = Rank(i)
  BY DEF Rank
<1>2. Rank(q_tail) = IF q_tail < q_head THEN q_tail + N - q_head ELSE q_tail - q_head
  BY RankIsBehind, BehindIs, RingAssumption DEF Slots
<1>3. After(q_tail) = IF q_tail = N - 1 THEN 0 ELSE q_tail + 1
  BY AfterIs, RingAssumption DEF After, Slots
<1>4. After(q_tail) # q_head
  BY <1>2, <1>3, RingAssumption DEF Room, Slots
<1>5. Rank(After(q_tail)) = Rank(q_tail) + 1
  BY <1>4, AfterType, RankIsBehind, BehindGrows, RingAssumption DEF After, Slots
<1>6. Rank(q_tail)' = Rank(q_tail) + 1
  BY <1>5 DEF Rank
<1>7. \A i \in Slots : Rank(i) \in Nat
  BY RankIsBehind, RingAssumption DEF Slots
<1>8. ASSUME NEW i \in Slots PROVE Rank(i) = Rank(q_tail) <=> i = q_tail
  BY <1>8, RankIsBehind, BehindIsOneToOne, RingAssumption DEF Slots
<1>9. ASSUME NEW i \in Slots
      PROVE  Rank(i)' < Rank(q_tail)' <=> Rank(i) < Rank(q_tail) \/ i = q_tail
  BY <1>1, <1>6, <1>7, <1>8
<1>10. Held' = Held \cup {q_tail}
  BY <1>9 DEF Held
<1> QED BY <1>1, <1>6, <1>10

\* A commit takes the head out of the ring, and nothing else.
LEMMA RingShrinks ==
  ASSUME q_head \in Slots, q_tail \in Slots, q_head # q_tail,
         q_head' = After(q_head), q_tail' = q_tail
  PROVE  /\ \A i \in Slots \ {q_head} : Rank(i)' = Rank(i) - 1
         /\ Rank(q_tail)' = Rank(q_tail) - 1
         /\ Held' = Held \ {q_head}
<1> DEFINE N == LSQ_QUEUE_SIZE
<1>1. ASSUME NEW i \in Slots
      PROVE  Rank(i)' = IF i = q_head THEN N - 1 ELSE Rank(i) - 1
  <2>1. Rank(i)' = Behind(N, After(q_head), i)
    BY DEF Rank, Behind
  <2>2. Behind(N, After(q_head), i)
          = IF i = q_head THEN N - 1 ELSE Behind(N, q_head, i) - 1
    BY BehindShrinks, RingAssumption DEF After, Slots
  <2> QED BY <2>1, <2>2, RankIsBehind
<1>2. Rank(q_tail)' = Rank(q_tail) - 1
  <2>1. Rank(q_tail)' = (q_tail + N - After(q_head)) % N
    BY DEF Rank
  <2> QED BY <1>1, <2>1 DEF Rank
<1>3. \A i \in Slots : Rank(i) \in Slots
  BY RankIsBehind
<1>4. ASSUME NEW i \in Slots
      PROVE  Rank(i)' < Rank(q_tail)' <=> Rank(i) < Rank(q_tail) /\ i # q_head
  BY <1>1, <1>2, <1>3, RingAssumption DEF Slots
<1>5. Held' = Held \ {q_head}
  BY <1>4 DEF Held
<1> QED BY <1>1, <1>2, <1>5

-----------------------------------------------------------------------------
(* Types.                                                                  *)

LEMMA EntryType ==
  ASSUME NEW store \in BOOLEAN, NEW vaddr \in Addrs \cup {None},
         NEW value \in Values \cup {None}, NEW id \in Ids
  PROVE  [store |-> store, vaddr |-> vaddr, value |-> value, id |-> id] \in Entries
  BY DEF Entries

\* The entry a record makes.
NewEntry(id, access, v_val, val_val) ==
  [store |-> access.store, vaddr |-> Given(v_val, access.addr),
   value |-> Given(val_val, access.value), id |-> id]

LEMMA NewEntryType ==
  ASSUME NEW id \in Ids, NEW access \in Accesses,
         NEW v_val \in BOOLEAN, NEW val_val \in BOOLEAN
  PROVE  NewEntry(id, access, v_val, val_val) \in Entries
<1>1. access.store \in BOOLEAN /\ access.addr \in Addrs /\ access.value \in Values
  BY DEF Accesses
<1> QED BY <1>1, EntryType DEF NewEntry, Given

\* The oldest incomplete entry with the id exists and is one of them.
LEMMA TargetIsIncomplete ==
  ASSUME TypeOK, NEW id \in Ids, Incomplete(id) # {}
  PROVE  Target(id) \in Incomplete(id)
<1> DEFINE ranks == {Rank(i) : i \in Incomplete(id)}
<1>1. ranks \in SUBSET Nat
  BY RankIsBehind, RingAssumption DEF TypeOK, Slots, Incomplete, Held
<1>2. ranks # {}
  OBVIOUS
<1>3. PICK r \in ranks : \A k \in ranks : r <= k
  <2> HIDE DEF ranks
  <2> QED BY <1>1, <1>2, LeastElement
<1>4. PICK m \in Incomplete(id) : r = Rank(m)
  OBVIOUS
<1>5. \A j \in Incomplete(id) : Rank(m) <= Rank(j)
  BY <1>3, <1>4
<1> QED BY <1>5 DEF Target

\* What a RESOLVE makes of the entry of the access t.
LEMMA CompletedIs ==
  ASSUME NEW e \in Entries, NEW t \in Accesses,
         NEW v_val \in BOOLEAN, NEW val_val \in BOOLEAN
  PROVE  LET c == Completed(e, t, v_val, val_val) IN
         /\ c \in Entries
         /\ c.store = e.store /\ c.id = e.id
         /\ c.vaddr = (IF v_val THEN t.addr ELSE e.vaddr)
         /\ c.value = (IF val_val THEN t.value ELSE e.value)
<1>1. t.addr \in Addrs /\ t.value \in Values
  BY DEF Accesses
<1> QED BY <1>1 DEF Completed, Entries

Inv == TypeOK /\ RingHoldsTheOutstanding /\ NothingReadyIsLeft

LEMMA InitInv == Init => Inv
<1> SUFFICES ASSUME Init PROVE Inv
  OBVIOUS
<1>1. 0 \in Slots
  BY RingAssumption DEF Slots
<1>2. TypeOK
  BY <1>1 DEF Init, TypeOK
<1>3. Held = {}
  BY <1>1, HeadIsHeld, RankIsBehind, RingAssumption DEF Init, Held, Slots
<1> QED BY <1>2, <1>3 DEF Init, Inv, RingHoldsTheOutstanding, NothingReadyIsLeft

\* What a record that adds an access does to the ring.
LEMMA EnqueueEffect ==
  ASSUME Inv, NEW id \in Ids, NEW access \in Accesses,
         NEW v_val \in BOOLEAN, NEW val_val \in BOOLEAN,
         Enqueue(id, access, v_val, val_val)
  PROVE  /\ lsq' = [lsq EXCEPT ![q_tail] = NewEntry(id, access, v_val, val_val)]
         /\ Held' = Held \cup {q_tail} /\ q_tail \notin Held
         /\ lsq'[q_tail] = NewEntry(id, access, v_val, val_val)
         /\ truth'[id] = access
         /\ \A other \in Ids \ {id} : truth'[other] = truth[other]
         /\ \A i \in Held : lsq'[i] = lsq[i] /\ lsq[i].id \in Ids \ {id}
<1>1. TypeOK /\ RingHoldsTheOutstanding
  BY DEF Inv
<1>2. lsq' = [lsq EXCEPT ![q_tail] = NewEntry(id, access, v_val, val_val)]
  BY DEF Enqueue, NewEntry
<1>3. Held' = Held \cup {q_tail} /\ q_tail \notin Held
  BY <1>1, RingGrows, HeadIsHeld DEF TypeOK, Enqueue
<1>4. /\ lsq'[q_tail] = NewEntry(id, access, v_val, val_val)
      /\ \A i \in Held : lsq'[i] = lsq[i]
      /\ truth'[id] = access
      /\ \A other \in Ids \ {id} : truth'[other] = truth[other]
  BY <1>1, <1>2, <1>3, HeldType DEF TypeOK, Enqueue
<1>5. \A i \in Held : lsq[i].id \in Ids \ {id}
  <2> TAKE i \in Held
  <2>1. truth[lsq[i].id] # None /\ lsq[i] \in Entries
    BY <1>1, HeldType DEF RingHoldsTheOutstanding, Agrees, TypeOK
  <2>2. lsq[i].id \in Ids
    BY <2>1 DEF Entries
  <2> QED BY <2>1, <2>2 DEF Enqueue
<1> QED BY <1>2, <1>3, <1>4, <1>5

\* A record that adds an access.
LEMMA EnqueueKeepsInv ==
  ASSUME Inv, NEW id \in Ids, NEW access \in Accesses,
         NEW v_val \in BOOLEAN, NEW val_val \in BOOLEAN,
         Enqueue(id, access, v_val, val_val)
  PROVE  Inv'
<1> DEFINE e == NewEntry(id, access, v_val, val_val)
<1>1. TypeOK /\ RingHoldsTheOutstanding
  BY DEF Inv
<1>2. /\ lsq' = [lsq EXCEPT ![q_tail] = e]
      /\ Held' = Held \cup {q_tail} /\ q_tail \notin Held
      /\ lsq'[q_tail] = e
      /\ truth'[id] = access
      /\ \A other \in Ids \ {id} : truth'[other] = truth[other]
      /\ \A i \in Held : lsq'[i] = lsq[i] /\ lsq[i].id \in Ids \ {id}
  BY EnqueueEffect
<1>3. e \in Entries /\ access # None /\ e # None
  BY NewEntryType, NothingAssumption
<1>4. /\ e.id = id /\ e.store = access.store
      /\ e.vaddr \in {None, access.addr} /\ e.value \in {None, access.value}
  BY DEF NewEntry, Given
<1> HIDE DEF e
<1>5. TypeOK'
  <2>1. lsq' \in [Slots -> Entries \cup {None}]
    BY <1>1, <1>2, <1>3 DEF TypeOK
  <2>2. q_head' \in Slots /\ q_tail' \in Slots
    BY <1>1, AfterType DEF TypeOK, Enqueue
  <2> QED BY <1>1, <2>1, <2>2 DEF TypeOK, Enqueue
<1>6. Agrees(e, truth'[e.id])
  BY <1>2, <1>3, <1>4 DEF Agrees
<1>7. RingHoldsTheOutstanding'
  <2>1. \A i \in Held' : lsq'[i] # None /\ Agrees(lsq'[i], truth'[lsq'[i].id])
    BY <1>1, <1>2, <1>3, <1>6 DEF RingHoldsTheOutstanding
  <2>2. \A i, j \in Held' : lsq'[i].id = lsq'[j].id => i = j
    BY <1>1, <1>2, <1>4 DEF RingHoldsTheOutstanding
  <2>3. \A other \in Ids : truth'[other] # None => \E i \in Held' : lsq'[i].id = other
    BY <1>1, <1>2, <1>4 DEF RingHoldsTheOutstanding
  <2> QED BY <2>1, <2>2, <2>3 DEF RingHoldsTheOutstanding
<1>8. NothingReadyIsLeft'
  BY DEF Enqueue, NothingReadyIsLeft
<1> QED BY <1>5, <1>7, <1>8 DEF Inv

\* What a record that completes an access does to the ring: it finds the
\* entry of its own access.
LEMMA ResolveEffect ==
  ASSUME Inv, NEW id \in Ids, NEW v_val \in BOOLEAN, NEW val_val \in BOOLEAN,
         Resolve(id, v_val, val_val)
  PROVE  \E x \in Held : \E c \in Entries :
           /\ lsq' = [lsq EXCEPT ![x] = c]
           /\ Agrees(c, truth[id]) /\ c.id = id /\ lsq[x].id = id
<1> DEFINE x == Target(id)
           c == Completed(lsq[x], truth[id], v_val, val_val)
<1>1. TypeOK /\ RingHoldsTheOutstanding
  BY DEF Inv
<1>2. x \in Held /\ lsq[x].id = id
  BY <1>1, TargetIsIncomplete DEF Resolve, Incomplete
<1>3. lsq[x] \in Entries /\ Agrees(lsq[x], truth[id]) /\ truth[id] \in Accesses
  BY <1>1, <1>2, HeldType DEF TypeOK, RingHoldsTheOutstanding, Resolve
<1>4. lsq' = [lsq EXCEPT ![x] = c]
  BY DEF Resolve, Completed
<1>5. /\ c \in Entries
      /\ c.store = lsq[x].store /\ c.id = lsq[x].id
      /\ c.vaddr = (IF v_val THEN truth[id].addr ELSE lsq[x].vaddr)
      /\ c.value = (IF val_val THEN truth[id].value ELSE lsq[x].value)
  BY <1>3, CompletedIs
<1> HIDE DEF x, c
<1>6. Agrees(c, truth[id])
  BY <1>3, <1>5 DEF Agrees
<1> QED BY <1>2, <1>4, <1>5, <1>6

\* A record that completes an access.
LEMMA ResolveKeepsInv ==
  ASSUME Inv, NEW id \in Ids, NEW v_val \in BOOLEAN, NEW val_val \in BOOLEAN,
         Resolve(id, v_val, val_val)
  PROVE  Inv'
<1>1. TypeOK /\ RingHoldsTheOutstanding
  BY DEF Inv
<1>2. PICK x \in Held : \E c \in Entries :
           /\ lsq' = [lsq EXCEPT ![x] = c]
           /\ Agrees(c, truth[id]) /\ c.id = id /\ lsq[x].id = id
  BY ResolveEffect
<1>3. PICK c \in Entries :
           /\ lsq' = [lsq EXCEPT ![x] = c]
           /\ Agrees(c, truth[id]) /\ c.id = id /\ lsq[x].id = id
  BY <1>2
<1>4. TypeOK'
  BY <1>1, <1>3 DEF TypeOK, Resolve
<1>5. Held' = Held /\ truth' = truth
  BY DEF Resolve, Held, Rank
<1>6. lsq'[x] = c /\ \A i \in Held \ {x} : lsq'[i] = lsq[i]
  BY <1>1, <1>3, HeldType DEF TypeOK
<1>7. \A i \in Held : lsq'[i].id = lsq[i].id
  BY <1>3, <1>6
<1>8. RingHoldsTheOutstanding'
  <2>1. \A i \in Held' : lsq'[i] # None /\ Agrees(lsq'[i], truth'[lsq'[i].id])
    BY <1>1, <1>3, <1>5, <1>6, NothingAssumption DEF RingHoldsTheOutstanding
  <2>2. \A i, j \in Held' : lsq'[i].id = lsq'[j].id => i = j
    BY <1>1, <1>5, <1>7 DEF RingHoldsTheOutstanding
  <2>3. \A other \in Ids : truth'[other] # None => \E i \in Held' : lsq'[i].id = other
    BY <1>1, <1>5, <1>7 DEF RingHoldsTheOutstanding
  <2> QED BY <2>1, <2>2, <2>3 DEF RingHoldsTheOutstanding
<1>9. NothingReadyIsLeft'
  BY DEF Resolve, NothingReadyIsLeft
<1> QED BY <1>4, <1>8, <1>9 DEF Inv

\* What a commit does to the ring.
LEMMA CommitEffect ==
  ASSUME Inv, commit_ready_ops, q_head # q_tail, Ready(lsq[q_head])
  PROVE  LET head == lsq[q_head] IN
         /\ q_head \in Held /\ Held' = Held \ {q_head}
         /\ head \in Entries /\ Agrees(head, truth[head.id])
         /\ head.id \in Ids /\ head.vaddr \in Addrs /\ head.value \in Values
         /\ truth' = [truth EXCEPT ![head.id] = None]
         /\ \A i \in Held' : lsq'[i] = lsq[i] /\ lsq[i].id \in Ids \ {head.id}
<1> DEFINE head == lsq[q_head]
<1>1. TypeOK /\ RingHoldsTheOutstanding
  BY DEF Inv
<1>2. q_head \in Held /\ Held' = Held \ {q_head}
  BY <1>1, HeadIsHeld, RingShrinks DEF TypeOK, commit_ready_ops
<1>3. head \in Entries /\ Agrees(head, truth[head.id])
  BY <1>1, <1>2, HeldType DEF TypeOK, RingHoldsTheOutstanding
<1>4. head.id \in Ids /\ head.vaddr \in Addrs /\ head.value \in Values
  BY <1>3 DEF Entries, Ready
<1>5. /\ lsq' = [lsq EXCEPT ![q_head] = None]
      /\ truth' = [truth EXCEPT ![head.id] = None]
  BY DEF commit_ready_ops
<1>6. \A i \in Held' : lsq'[i] = lsq[i] /\ lsq[i].id \in Ids \ {head.id}
  <2> TAKE i \in Held'
  <2>1. i \in Held /\ i # q_head /\ i \in Slots
    BY <1>2, HeldType
  <2>2. lsq[i].id # head.id
    BY <1>1, <1>2, <2>1 DEF RingHoldsTheOutstanding
  <2>3. lsq[i] \in Entries
    BY <1>1, <2>1 DEF TypeOK, RingHoldsTheOutstanding
  <2> QED BY <1>1, <1>5, <2>1, <2>2, <2>3 DEF TypeOK, Entries
<1> QED BY <1>2, <1>3, <1>4, <1>5, <1>6

\* One turn of the loop that commits.
LEMMA CommitKeepsInv ==
  ASSUME Inv, commit_ready_ops
  PROVE  Inv'
<1>1. TypeOK /\ RingHoldsTheOutstanding
  BY DEF Inv
<1>2. CASE q_head # q_tail /\ Ready(lsq[q_head])
  <2> DEFINE old == lsq[q_head].id
  <2>1. /\ q_head \in Held /\ Held' = Held \ {q_head}
        /\ old \in Ids /\ lsq[q_head].vaddr \in Addrs /\ lsq[q_head].value \in Values
        /\ truth' = [truth EXCEPT ![old] = None]
        /\ \A i \in Held' : lsq'[i] = lsq[i] /\ lsq[i].id \in Ids \ {old}
    BY <1>2, CommitEffect
  <2>2. memory' \in [Addrs -> Values \cup {None}]
    BY <1>1, <1>2, <2>1 DEF commit_ready_ops, update_architectural_memory, TypeOK
  <2>3. TypeOK'
    BY <1>1, <1>2, <2>1, <2>2, AfterType DEF TypeOK, commit_ready_ops, Loop
  <2> HIDE DEF old
  <2>4. truth'[old] = None /\ \A id \in Ids \ {old} : truth'[id] = truth[id]
    BY <1>1, <2>1 DEF TypeOK
  <2>5. RingHoldsTheOutstanding'
    <3>1. \A i \in Held' : lsq'[i] # None /\ Agrees(lsq'[i], truth'[lsq'[i].id])
      BY <1>1, <2>1, <2>4 DEF RingHoldsTheOutstanding
    <3>2. \A i, j \in Held' : lsq'[i].id = lsq'[j].id => i = j
      BY <1>1, <2>1 DEF RingHoldsTheOutstanding
    <3>3. \A id \in Ids : truth'[id] # None => \E i \in Held' : lsq'[i].id = id
      BY <1>1, <2>1, <2>4 DEF RingHoldsTheOutstanding, old
    <3> QED BY <3>1, <3>2, <3>3 DEF RingHoldsTheOutstanding
  <2>6. NothingReadyIsLeft'
    BY <1>2 DEF NothingReadyIsLeft, commit_ready_ops, Loop
  <2> QED BY <2>3, <2>5, <2>6 DEF Inv
<1>3. CASE ~(q_head # q_tail /\ Ready(lsq[q_head]))
  <2>1. UNCHANGED <<lsq, q_head, q_tail, memory, truth>> /\ committing' = FALSE
    BY <1>3 DEF commit_ready_ops
  <2>2. TypeOK'
    BY <1>1, <2>1 DEF TypeOK
  <2>3. RingHoldsTheOutstanding'
    BY <1>1, <2>1 DEF RingHoldsTheOutstanding, Held, Rank, Agrees
  <2>4. NothingReadyIsLeft'
    BY <1>3, <2>1 DEF NothingReadyIsLeft, Ready
  <2> QED BY <2>2, <2>3, <2>4 DEF Inv
<1> QED BY <1>2, <1>3

LEMMA StutterKeepsInv ==
  ASSUME Inv, UNCHANGED vars
  PROVE  Inv'
  BY DEF Inv, vars, TypeOK, RingHoldsTheOutstanding, NothingReadyIsLeft,
         Held, Rank, Agrees, Ready

LEMMA Invariance == Spec => []Inv
<1>1. ASSUME Inv, [Next]_vars PROVE Inv'
  BY <1>1, EnqueueKeepsInv, ResolveKeepsInv, CommitKeepsInv, StutterKeepsInv DEF Next
<1> QED BY InitInv, <1>1, PTL DEF Spec

\* The ring, its pointers and the memory keep their types: replay_trace.c
\* never writes outside lsq[], whatever the size.
THEOREM TypeCorrect == Spec => []TypeOK
  BY Invariance, PTL DEF Inv

\* The ring without a full flag holds every outstanding access once, with no
\* field that is not that access's own, as long as a slot is left free.
THEOREM RingIsExact == Spec => []RingHoldsTheOutstanding
  BY Invariance, PTL DEF Inv

\* commit_ready_ops never leaves an access at the head that could retire.
THEOREM LoopIsComplete == Spec => []NothingReadyIsLeft
  BY Invariance, PTL DEF Inv

-----------------------------------------------------------------------------
(* The refinement of SequentialMemory.                                     *)

\* The k-th slot from the head is k - 1 behind it, and held if it is among
\* the entries.
LEMMA NthIs ==
  ASSUME TypeOK, NEW k \in 1 .. LSQ_QUEUE_SIZE
  PROVE  Nth(k) \in Slots /\ Rank(Nth(k)) = k - 1
<1>1. k - 1 \in Slots
  BY RingAssumption DEF Slots
<1>2. Nth(k) \in Slots /\ Behind(LSQ_QUEUE_SIZE, q_head, Nth(k)) = k - 1
  BY <1>1, PositionIs, RingAssumption DEF Nth, TypeOK, Slots
<1> QED BY <1>2, RankIsBehind DEF TypeOK

LEMMA NthIsHeld ==
  ASSUME TypeOK, NEW k \in 1 .. Rank(q_tail)
  PROVE  Nth(k) \in Held /\ Nth(k) \in Slots /\ Rank(Nth(k)) = k - 1
<1>1. Rank(q_tail) \in Slots
  BY RankIsBehind DEF TypeOK
<1>2. k \in 1 .. LSQ_QUEUE_SIZE /\ k - 1 < Rank(q_tail)
  BY <1>1, RingAssumption DEF Slots
<1> QED BY <1>2, NthIs DEF Held

LEMMA SlotOfRank ==
  ASSUME TypeOK, NEW i \in Slots, NEW j \in Slots, Rank(i) = Rank(j)
  PROVE  i = j
  BY RankIsBehind, BehindIsOneToOne, RingAssumption DEF TypeOK, Slots

\* What Outstanding is: a sequence with one access per entry.
OneEach ==
  /\ Rank(q_tail) \in Nat
  /\ Outstanding \in Seq(Accesses) /\ Len(Outstanding) = Rank(q_tail)
  /\ \A k \in 1 .. Rank(q_tail) : Outstanding[k] = truth[lsq[Nth(k)].id]

LEMMA OutstandingIs == Inv => OneEach
<1> SUFFICES ASSUME Inv PROVE OneEach
  OBVIOUS
<1> DEFINE n == Rank(q_tail)
<1>1. n \in Nat
  BY RankIsBehind, RingAssumption DEF Inv, TypeOK, Slots
<1>2. ASSUME NEW k \in 1 .. n PROVE truth[lsq[Nth(k)].id] \in Accesses
  <2>1. Nth(k) \in Held /\ Nth(k) \in Slots
    BY NthIsHeld DEF Inv
  <2>2. lsq[Nth(k)] \in Entries /\ truth[lsq[Nth(k)].id] # None
    BY <2>1 DEF Inv, TypeOK, RingHoldsTheOutstanding, Agrees
  <2>3. lsq[Nth(k)].id \in Ids
    BY <2>2 DEF Entries
  <2> QED BY <2>2, <2>3 DEF Inv, TypeOK
<1>3. Outstanding \in [1 .. n -> Accesses]
  BY <1>2 DEF Outstanding
<1>4. \A k \in 1 .. n : Outstanding[k] = truth[lsq[Nth(k)].id]
  BY DEF Outstanding
<1> HIDE DEF n
<1>5. Outstanding \in Seq(Accesses)
  BY <1>1, <1>3, SeqDef
<1>6. Len(Outstanding) = n
  <2>1. DOMAIN Outstanding = 1 .. n
    BY <1>3
  <2>2. DOMAIN Outstanding = 1 .. Len(Outstanding) /\ Len(Outstanding) \in Nat
    BY <1>5, LenProperties
  <2> QED BY <1>1, <2>1, <2>2
<1> QED BY <1>1, <1>4, <1>5, <1>6 DEF n, OneEach

LEMMA OutstandingThen == Inv' => OneEach'
  BY OutstandingIs, PTL

LEMMA InitRefines == Init => Sequential!SMInit
<1> SUFFICES ASSUME Init PROVE Sequential!SMInit
  OBVIOUS
<1>1. Inv
  BY InitInv
<1>2. Rank(q_tail) = 0
  BY <1>1, HeadIsHeld DEF Init, Inv, TypeOK
<1>3. Outstanding = <<>>
  BY <1>1, <1>2, OutstandingIs, EmptySeq DEF OneEach
<1> QED BY <1>3 DEF Init, Sequential!SMInit

\* A record that adds an access issues it.
LEMMA EnqueueRefines ==
  ASSUME Inv, NEW id \in Ids, NEW access \in Accesses,
         NEW v_val \in BOOLEAN, NEW val_val \in BOOLEAN,
         Enqueue(id, access, v_val, val_val)
  PROVE  Sequential!Issue(access)
<1> DEFINE n == Rank(q_tail)
           longer == Append(Outstanding, access)
<1>1. Inv' /\ TypeOK
  BY EnqueueKeepsInv DEF Inv
<1>2. /\ lsq'[q_tail] = NewEntry(id, access, v_val, val_val)
      /\ truth'[id] = access
      /\ \A other \in Ids \ {id} : truth'[other] = truth[other]
      /\ \A i \in Held : lsq'[i] = lsq[i] /\ lsq[i].id \in Ids \ {id}
  BY EnqueueEffect
<1>3. Rank(q_tail)' = n + 1
  BY <1>1, RingGrows DEF TypeOK, Enqueue
<1>4. /\ n \in Nat /\ Outstanding \in Seq(Accesses) /\ Len(Outstanding) = n
      /\ \A k \in 1 .. n : Outstanding[k] = truth[lsq[Nth(k)].id]
  BY OutstandingIs DEF OneEach
<1>5. /\ Outstanding' \in Seq(Accesses) /\ Len(Outstanding') = n + 1
      /\ \A k \in 1 .. (n + 1) : Outstanding'[k] = truth'[lsq'[Nth(k)'].id]
  BY <1>1, <1>3, OutstandingThen DEF OneEach
<1>6. /\ longer \in Seq(Accesses) /\ Len(longer) = n + 1
      /\ \A k \in 1 .. n : longer[k] = Outstanding[k]
      /\ longer[n + 1] = access
  BY <1>4, AppendProperties
<1>7. \A k \in 1 .. (n + 1) : Nth(k)' = Nth(k)
  BY DEF Nth, Enqueue
<1>8. Nth(n + 1) = q_tail
  <2>1. n \in Slots
    BY <1>1, RankIsBehind DEF TypeOK
  <2> DEFINE k == n + 1
  <2>2. k \in 1 .. LSQ_QUEUE_SIZE /\ k - 1 = n
    BY <2>1, RingAssumption DEF Slots
  <2> HIDE DEF k
  <2>3. Nth(k) \in Slots /\ Rank(Nth(k)) = n
    BY <1>1, <2>2, NthIs
  <2>4. Nth(k) = q_tail
    BY <1>1, <2>3, SlotOfRank DEF TypeOK
  <2> QED BY <2>4 DEF k
<1>9. ASSUME NEW k \in 1 .. n PROVE Outstanding'[k] = Outstanding[k]
  <2>1. Nth(k) \in Held
    BY <1>1, NthIsHeld
  <2>2. Outstanding'[k] = truth'[lsq'[Nth(k)].id]
    BY <1>4, <1>5, <1>7
  <2> QED BY <1>2, <1>4, <2>1, <2>2
<1>10. Outstanding'[n + 1] = access
  <2>1. Outstanding'[n + 1] = truth'[lsq'[q_tail].id]
    BY <1>4, <1>5, <1>7, <1>8
  <2> QED BY <1>2, <2>1 DEF NewEntry
<1>11. \A k \in 1 .. Len(longer) : Outstanding'[k] = longer[k]
  <2> HIDE DEF n, longer
  <2> QED BY <1>4, <1>6, <1>9, <1>10
<1>12. Outstanding' = longer
  <2> HIDE DEF n, longer
  <2> QED BY <1>5, <1>6, <1>11, SeqEqual
<1> QED BY <1>12 DEF Sequential!Issue, Enqueue

\* A record that completes an access says nothing new.
LEMMA ResolveRefines ==
  ASSUME Inv, NEW id \in Ids, NEW v_val \in BOOLEAN, NEW val_val \in BOOLEAN,
         Resolve(id, v_val, val_val)
  PROVE  UNCHANGED Sequential!smVars
<1>1. TypeOK
  BY DEF Inv
<1>2. PICK x \in Held : \E c \in Entries :
           /\ lsq' = [lsq EXCEPT ![x] = c]
           /\ Agrees(c, truth[id]) /\ c.id = id /\ lsq[x].id = id
  BY ResolveEffect
<1>3. \A i \in Held : lsq'[i].id = lsq[i].id
  BY <1>1, <1>2, HeldType DEF TypeOK
<1>4. Rank(q_tail)' = Rank(q_tail) /\ truth' = truth /\ memory' = memory
  BY DEF Rank, Resolve
<1>5. \A k \in 1 .. Rank(q_tail) : Nth(k)' = Nth(k) /\ Nth(k) \in Held
  BY <1>1, NthIsHeld DEF Nth, Resolve
<1>6. Outstanding' = [k \in 1 .. Rank(q_tail) |-> truth[lsq'[Nth(k)'].id]]
  BY <1>4 DEF Outstanding
<1>7. \A k \in 1 .. Rank(q_tail) : truth[lsq'[Nth(k)'].id] = truth[lsq[Nth(k)].id]
  BY <1>3, <1>5
<1>8. Outstanding' = Outstanding
  BY <1>6, <1>7 DEF Outstanding
<1> QED BY <1>4, <1>8 DEF Sequential!smVars

\* A turn of the loop that commits an access commits the oldest.
LEMMA CommitRefines ==
  ASSUME Inv, commit_ready_ops, q_head # q_tail, Ready(lsq[q_head])
  PROVE  Sequential!Commit
<1> DEFINE n == Rank(q_tail)
           head == lsq[q_head]
           rest == Tail(Outstanding)
<1>1. Inv' /\ TypeOK /\ q_head' = After(q_head) /\ q_tail' = q_tail
  BY CommitKeepsInv DEF Inv, commit_ready_ops
<1>2. /\ q_head \in Held /\ Held' = Held \ {q_head}
      /\ head \in Entries /\ Agrees(head, truth[head.id])
      /\ head.id \in Ids /\ head.vaddr \in Addrs /\ head.value \in Values
      /\ truth' = [truth EXCEPT ![head.id] = None]
      /\ \A i \in Held' : lsq'[i] = lsq[i] /\ lsq[i].id \in Ids \ {head.id}
  BY CommitEffect
<1>3. Rank(q_tail)' = n - 1 /\ n # 0
  BY <1>1, HeadIsHeld, RingShrinks DEF TypeOK
<1>4. /\ n \in Nat /\ Outstanding \in Seq(Accesses) /\ Len(Outstanding) = n
      /\ \A k \in 1 .. n : Outstanding[k] = truth[lsq[Nth(k)].id]
  BY OutstandingIs DEF OneEach
<1>5. Outstanding # <<>>
  BY <1>3, <1>4, EmptySeq
<1>6. /\ Outstanding' \in Seq(Accesses) /\ Len(Outstanding') = n - 1
      /\ \A k \in 1 .. (n - 1) : Outstanding'[k] = truth'[lsq'[Nth(k)'].id]
  BY <1>1, <1>3, OutstandingThen DEF OneEach
<1>7. /\ rest \in Seq(Accesses) /\ Len(rest) = n - 1
      /\ \A k \in 1 .. (n - 1) : rest[k] = Outstanding[k + 1]
  BY <1>4, <1>5, HeadTailProperties
<1>8. ASSUME NEW k \in 1 .. (n - 1)
      PROVE  Nth(k)' = Nth(k + 1) /\ Nth(k + 1) \in Held'
  <2>1. k + 1 \in 1 .. n /\ k \in 1 .. Rank(q_tail)'
    BY <1>3, <1>4
  <2>2. Nth(k + 1) \in Held /\ Nth(k + 1) \in Slots /\ Rank(Nth(k + 1)) = k
    BY <1>1, <2>1, NthIsHeld
  <2>3. Nth(k + 1) # q_head
    BY <1>1, <2>2, HeadIsHeld DEF TypeOK
  <2>4. Behind(LSQ_QUEUE_SIZE, After(q_head), Nth(k + 1)) = k - 1
    <3> DEFINE i == Nth(k + 1)
    <3>1. i \in Slots /\ i # q_head /\ Behind(LSQ_QUEUE_SIZE, q_head, i) = k
      BY <1>1, <2>2, <2>3, RankIsBehind DEF TypeOK
    <3> HIDE DEF i
    <3>2. Behind(LSQ_QUEUE_SIZE, After(q_head), i) = k - 1
      BY <1>1, <3>1, BehindShrinks, RingAssumption DEF After, TypeOK, Slots
    <3> QED BY <3>2 DEF i
  <2>5. k - 1 \in Slots /\ After(q_head) \in Slots
    BY <1>1, <1>4, RankIsBehind, AfterType, RingAssumption DEF TypeOK, Slots
  <2>6. Nth(k)' = (After(q_head) + (k - 1)) % LSQ_QUEUE_SIZE
    BY <1>1 DEF Nth
  <2>7. Nth(k)' \in Slots /\ Behind(LSQ_QUEUE_SIZE, After(q_head), Nth(k)') = k - 1
    <3> DEFINE h == After(q_head)
               j == k - 1
    <3>1. h \in 0 .. (LSQ_QUEUE_SIZE - 1) /\ j \in 0 .. (LSQ_QUEUE_SIZE - 1)
      BY <2>5 DEF Slots
    <3>2. LSQ_QUEUE_SIZE \in Nat \ {0} /\ Slots = 0 .. (LSQ_QUEUE_SIZE - 1)
      BY RingAssumption DEF Slots
    <3>3. Nth(k)' = (h + j) % LSQ_QUEUE_SIZE
      BY <2>6
    <3> HIDE DEF h, j
    <3>4. Nth(k)' \in Slots /\ Behind(LSQ_QUEUE_SIZE, h, Nth(k)') = j
      BY <3>1, <3>2, <3>3, PositionIs
    <3> QED BY <3>4 DEF h, j
  <2>8. Nth(k)' = Nth(k + 1)
    BY <2>2, <2>4, <2>5, <2>7, BehindIsOneToOne, RingAssumption DEF Slots
  <2> QED BY <1>2, <2>2, <2>3, <2>8
<1>9. \A id \in Ids \ {head.id} : truth'[id] = truth[id]
  BY <1>1, <1>2 DEF TypeOK
<1>10. ASSUME NEW k \in 1 .. (n - 1) PROVE Outstanding'[k] = rest[k]
  <2>1. Outstanding'[k] = truth'[lsq'[Nth(k + 1)].id]
    BY <1>6, <1>8
  <2>2. Outstanding'[k] = truth[lsq[Nth(k + 1)].id]
    BY <1>2, <1>8, <1>9, <2>1
  <2>3. rest[k] = truth[lsq[Nth(k + 1)].id]
    BY <1>4, <1>7
  <2> QED BY <2>2, <2>3
<1>11. Outstanding' = rest
  <2> HIDE DEF n, rest
  <2>1. \A k \in 1 .. Len(rest) : Outstanding'[k] = rest[k]
    BY <1>7, <1>10
  <2> QED BY <1>6, <1>7, <2>1, SeqEqual
<1>12. Head(Outstanding) = truth[head.id]
  <2>1. Nth(1) = q_head
    <3>1. 1 \in 1 .. LSQ_QUEUE_SIZE /\ 1 - 1 = 0
      BY RingAssumption
    <3>2. Nth(1) \in Slots /\ Rank(Nth(1)) = 0
      BY <1>1, <3>1, NthIs
    <3> QED BY <1>1, <3>2, HeadIsHeld, SlotOfRank DEF TypeOK
  <2>2. Outstanding[1] = truth[lsq[q_head].id]
    BY <1>3, <1>4, <2>1
  <2> QED BY <1>5, <2>2
<1>13. truth[head.id].store = head.store /\ truth[head.id].addr = head.vaddr
       /\ truth[head.id].value = head.value
  BY <1>2, NothingAssumption DEF Agrees
<1>14. memory' = IF head.store THEN [memory EXCEPT ![head.vaddr] = head.value]
                 ELSE memory
  BY DEF commit_ready_ops, update_architectural_memory
<1>15. memory' = IF Head(Outstanding).store
                 THEN [memory EXCEPT ![Head(Outstanding).addr] = Head(Outstanding).value]
                 ELSE memory
  BY <1>12, <1>13, <1>14
<1> QED BY <1>5, <1>11, <1>15 DEF Sequential!Commit

LEMMA StepRefines ==
  ASSUME Inv, [Next]_vars
  PROVE  [Sequential!SMNext]_Sequential!smVars
<1>1. ASSUME NEW id \in Ids, NEW access \in Accesses,
             NEW v_val \in BOOLEAN, NEW val_val \in BOOLEAN,
             Enqueue(id, access, v_val, val_val)
      PROVE  Sequential!SMNext
  BY <1>1, EnqueueRefines DEF Sequential!SMNext, Sequential!Accesses, Accesses
<1>2. CASE commit_ready_ops
  <2>1. CASE q_head # q_tail /\ Ready(lsq[q_head])
    BY <1>2, <2>1, CommitRefines DEF Sequential!SMNext
  <2>2. CASE ~(q_head # q_tail /\ Ready(lsq[q_head]))
    BY <1>2, <2>2 DEF commit_ready_ops, Sequential!smVars, Outstanding, Rank, Nth
  <2> QED BY <2>1, <2>2
<1>3. CASE UNCHANGED vars
  BY <1>3 DEF vars, Sequential!smVars, Outstanding, Rank, Nth
<1> QED BY <1>1, <1>2, <1>3, ResolveRefines DEF Next

\* Precise exceptions: the memory of replay_trace.c is that of a program whose
\* accesses take effect one at a time in program order.
THEOREM ReplayIsSequential == Spec => ImplementsSequentialMemory
<1>1. Spec => []Inv
  BY Invariance
<1>2. Inv /\ [Next]_vars => [Sequential!SMNext]_Sequential!smVars
  BY StepRefines
<1> QED BY <1>1, <1>2, InitRefines, PTL
    DEF Spec, ImplementsSequentialMemory, Sequential!SMSpec
=============================================================================
