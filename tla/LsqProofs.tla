----------------------------- MODULE LsqProofs -----------------------------
(***************************************************************************)
(* Proofs about Lsq.tla, for queues of any size and any sequence of trace  *)
(* lines, translations and answers.                                        *)
(***************************************************************************)
EXTENDS Lsq, Arithmetic

-----------------------------------------------------------------------------
(* Positions.                                                              *)

LEMMA IncType ==
  ASSUME NEW i \in Slots
  PROVE  Inc(i) \in Slots
  BY QueueAssumption, AfterIs DEF Inc, Slots

LEMMA AgeRankIsBehind ==
  ASSUME NEW h \in Slots, NEW i \in Slots
  PROVE  AgeRank(h, i) = Behind(QSIZE, h, i) /\ AgeRank(h, i) \in Slots
  BY QueueAssumption, BehindIs DEF AgeRank, Behind, Slots

\* The slot the code's scans end on is one of those they look for.
LEMMA LastIsMember ==
  ASSUME NEW S \in SUBSET Slots, S # {}
  PROVE  LastOf(S) \in S
<1>1. QSIZE - 1 \in Nat /\ S \in SUBSET (0 .. (QSIZE - 1))
  BY QueueAssumption DEF Slots
<1>2. PICK m \in S : \A k \in S : k <= m
  BY <1>1, GreatestElement
<1> QED BY <1>2 DEF LastOf

LEMMA OldestIsMember ==
  ASSUME NEW h \in Slots, NEW S \in SUBSET Slots, S # {}
  PROVE  Oldest(h, S) \in S
<1> DEFINE ranks == {AgeRank(h, i) : i \in S}
<1>1. ranks \in SUBSET Nat
  BY AgeRankIsBehind DEF Slots
<1>2. ranks # {}
  OBVIOUS
<1>3. PICK r \in ranks : \A k \in ranks : r <= k
  <2> HIDE DEF ranks
  <2> QED BY <1>1, <1>2, LeastElement
<1>4. PICK m \in S : r = AgeRank(h, m)
  OBVIOUS
<1>5. \A k \in S : AgeRank(h, m) <= AgeRank(h, k)
  BY <1>3, <1>4
<1> QED BY <1>5 DEF Oldest

LEMMA YoungestIsMember ==
  ASSUME NEW h \in Slots, NEW S \in SUBSET Slots, S # {}
  PROVE  Youngest(h, S) \in S
<1> DEFINE ranks == {AgeRank(h, i) : i \in S}
<1>1. ranks \in SUBSET (0 .. (QSIZE - 1)) /\ QSIZE - 1 \in Nat
  BY AgeRankIsBehind, QueueAssumption DEF Slots
<1>2. ranks # {}
  OBVIOUS
<1>3. PICK r \in ranks : \A k \in ranks : k <= r
  <2> HIDE DEF ranks
  <2> QED BY <1>1, <1>2, GreatestElement
<1>4. PICK m \in S : r = AgeRank(h, m)
  OBVIOUS
<1>5. \A k \in S : AgeRank(h, k) <= AgeRank(h, m)
  BY <1>3, <1>4
<1> QED BY <1>5 DEF Youngest

LEMMA UpdateIdxType ==
  ASSUME NEW q, NEW id
  PROVE  update_idx(q, id) \in Slots
<1>1. 0 \in Slots
  BY QueueAssumption DEF Slots
<1>2. WithId(q, id) \in SUBSET Slots
  BY DEF WithId
<1> QED BY <1>1, <1>2, LastIsMember DEF update_idx

-----------------------------------------------------------------------------
(* One edge keeps every register in its type.                              *)

LEMMA TlbAsksType ==
  ASSUME TypeOK, NEW t
  PROVE  TlbAsks(t) \in TlbWaits \cup {None}
<1>1. Reruns \in SUBSET Slots
  BY DEF Reruns
<1>2. Reruns # {} => rerun_load_idx \in Slots
  BY <1>1, OldestIsMember DEF TypeOK, rerun_load_idx
<1>3. \A idx \in Slots : \A is_load \in BOOLEAN :
        [is_load |-> is_load, idx |-> idx] \in TlbWaits
  BY DEF TlbWaits
<1>4. load_tail \in Slots /\ store_tail \in Slots
  BY DEF TypeOK
<1>5. update_idx(loads, t.id) \in Slots /\ update_idx(stores, t.id) \in Slots
  BY UpdateIdxType
<1> QED BY <1>2, <1>3, <1>4, <1>5 DEF TlbAsks

LEMMA EntryType ==
  ASSUME NEW v \in BOOLEAN, NEW r \in BOOLEAN, NEW ea \in Vaddrs,
         NEW vv \in BOOLEAN, NEW d \in Values, NEW id \in Ids,
         NEW tail \in Slots, NEW pa \in PhysAddrs
  PROVE  [valid |-> v, resolved |-> r, ea |-> ea, vvalid |-> vv,
          data |-> d, id |-> id, tail |-> tail, pa |-> pa] \in Entries
  BY DEF Entries

LEMMA BlankType ==
  ASSUME NEW tail \in Slots
  PROVE  Blank(tail) \in Entries
  BY ZeroAssumption, EntryType DEF Blank

LEMMA EnqueuedType ==
  ASSUME NEW t \in Traces, NEW tail \in Slots
  PROVE  Enqueued(t, tail) \in Entries
<1> DEFINE vv == t.op = "STORE" /\ t.dv
           d  == IF t.op = "STORE" THEN t.value ELSE ZeroValue
<1>1. t.vaddr \in Vaddrs /\ t.id \in Ids /\ d \in Values
  BY ZeroAssumption DEF Traces
<1>2. vv \in BOOLEAN
  OBVIOUS
<1> HIDE DEF vv, d
<1>3. [valid |-> TRUE, resolved |-> FALSE, ea |-> t.vaddr, vvalid |-> vv,
       data |-> d, id |-> t.id, tail |-> tail, pa |-> ZeroPaddr] \in Entries
  BY <1>1, <1>2, ZeroAssumption, EntryType
<1> QED BY <1>3 DEF Enqueued, vv, d

LEMMA NextLoadType ==
  ASSUME TypeOK, NEW t \in Traces, NEW hit \in BOOLEAN, NEW pa \in PhysAddrs,
         NEW ret \in BOOLEAN, NEW word \in Values, NEW i \in Slots
  PROVE  NextLoad(t, hit, pa, ret, word, i) \in Entries
<1>1. loads[i] \in Entries /\ store_tail \in Slots
  BY DEF TypeOK
<1>2. loads[i].tail \in Slots /\ loads[i].ea \in Vaddrs /\ loads[i].data \in Values
      /\ loads[i].id \in Ids /\ loads[i].pa \in PhysAddrs
  BY <1>1 DEF Entries
<1>3. Enqueued(t, store_tail) \in Entries /\ Blank(loads[i].tail) \in Entries
  BY <1>1, <1>2, EnqueuedType, BlankType
<1> DEFINE resolving == ResolvesLoad(t) /\ i = update_idx(loads, t.id)
           forwarded == resolving /\ Forwards(t)
           source == Youngest(store_head, final_stores_before_load(t))
           r  == loads[i].resolved \/ TranslatedLoad(hit, i) \/ resolving
           ea == IF resolving THEN t.vaddr ELSE loads[i].ea
           vv == \/ forwarded \/ Returned(ret, i)
                 \/ loads[i].vvalid /\ i \notin final_loads_after_store(t)
           d  == IF forwarded THEN stores[source].data
                 ELSE IF Returned(ret, i) THEN word ELSE loads[i].data
           p  == IF TranslatedLoad(hit, i) THEN pa ELSE loads[i].pa
<1>4. r \in BOOLEAN /\ vv \in BOOLEAN
  OBVIOUS
<1>5. ea \in Vaddrs /\ p \in PhysAddrs
  BY <1>2 DEF Traces
<1>6. d \in Values
  <2>1. CASE forwarded
    <3>1. final_stores_before_load(t) \in SUBSET Slots
      BY DEF final_stores_before_load, Matching
    <3>2. final_stores_before_load(t) # {}
      BY <2>1 DEF Forwards
    <3>3. source \in Slots
      BY <3>1, <3>2, YoungestIsMember DEF TypeOK
    <3>4. stores[source] \in Entries
      BY <3>3 DEF TypeOK
    <3>5. stores[source].data \in Values
      BY <3>4 DEF Entries
    <3> QED BY <2>1, <3>5
  <2>2. CASE ~forwarded
    BY <1>2, <2>2
  <2> QED BY <2>1, <2>2
<1> HIDE DEF r, ea, vv, d, p
<1>7. [valid |-> TRUE, resolved |-> r, ea |-> ea, vvalid |-> vv, data |-> d,
       id |-> loads[i].id, tail |-> loads[i].tail, pa |-> p] \in Entries
  BY <1>2, <1>4, <1>5, <1>6, EntryType
<1> QED BY <1>1, <1>3, <1>7 DEF NextLoad, r, ea, vv, d, p

LEMMA NextStoreType ==
  ASSUME TypeOK, NEW t \in Traces, NEW hit \in BOOLEAN, NEW pa \in PhysAddrs, NEW i \in Slots
  PROVE  NextStore(t, hit, pa, i) \in Entries
<1>1. stores[i] \in Entries /\ load_tail \in Slots
  BY DEF TypeOK
<1>2. stores[i].tail \in Slots /\ stores[i].ea \in Vaddrs /\ stores[i].data \in Values
      /\ stores[i].id \in Ids /\ stores[i].pa \in PhysAddrs /\ stores[i].vvalid \in BOOLEAN
  BY <1>1 DEF Entries
<1>3. Enqueued(t, load_tail) \in Entries /\ Blank(stores[i].tail) \in Entries
  BY <1>1, <1>2, EnqueuedType, BlankType
<1> DEFINE resolving == ResolvesStore(t) /\ i = update_idx(stores, t.id)
           r  == stores[i].resolved \/ TranslatedStore(hit, i) \/ resolving
           ea == IF resolving THEN t.vaddr ELSE stores[i].ea
           p  == IF TranslatedStore(hit, i) THEN pa ELSE stores[i].pa
<1>4. r \in BOOLEAN
  OBVIOUS
<1>5. ea \in Vaddrs /\ p \in PhysAddrs
  BY <1>2 DEF Traces
<1> HIDE DEF r, ea, p
<1>6. [valid |-> TRUE, resolved |-> r, ea |-> ea, vvalid |-> stores[i].vvalid,
       data |-> stores[i].data, id |-> stores[i].id, tail |-> stores[i].tail,
       pa |-> p] \in Entries
  BY <1>2, <1>4, <1>5, EntryType
<1> QED BY <1>1, <1>3, <1>6 DEF NextStore, r, ea, p

LEMMA NextCacheReqType ==
  ASSUME TypeOK, NEW hit \in BOOLEAN, NEW pa \in PhysAddrs
  PROVE  NextCacheReq(hit, pa) \in Requests \cup {None}
<1>1. stores[store_head].pa \in PhysAddrs /\ stores[store_head].data \in Values
  <2>1. stores[store_head] \in Entries
    BY DEF TypeOK
  <2> QED BY <2>1 DEF Entries
<1>2. \A we \in BOOLEAN, p \in PhysAddrs, w \in Values :
        [we |-> we, paddr |-> p, wdata |-> w] \in Requests
  BY DEF Requests
<1> QED BY <1>1, <1>2, ZeroAssumption DEF NextCacheReq

LEMMA EdgeType ==
  ASSUME TypeOK, NEW t \in Traces, NEW hit \in BOOLEAN, NEW pa \in PhysAddrs,
         NEW ret \in BOOLEAN, NEW word \in Values, Edge(t, hit, pa, ret, word)
  PROVE  TypeOK'
<1>1. loads' \in [Slots -> Entries]
  BY NextLoadType DEF Edge
<1>2. stores' \in [Slots -> Entries]
  BY NextStoreType DEF Edge
<1>3. load_head' \in Slots /\ load_tail' \in Slots
      /\ store_head' \in Slots /\ store_tail' \in Slots
  BY IncType DEF Edge, TypeOK
<1>4. tlb_pending' \in TlbWaits \cup {None}
  BY TlbAsksType DEF Edge, TypeOK
<1>5. cache_pending' \in Slots \cup {None}
  <2>1. LoadTranslated(hit) => tlb_pending \in TlbWaits
    BY DEF LoadTranslated, Translated, TypeOK
  <2>2. LoadTranslated(hit) => tlb_pending.idx \in Slots
    BY <2>1 DEF TlbWaits
  <2> QED BY <2>2 DEF Edge, TypeOK
<1>6. trace_id_prev' \in Ids
  BY DEF Edge, TypeOK, Traces
<1>7. tlb_req' \in BOOLEAN
  BY DEF Edge
<1>8. tlb_fill' \in Fills \cup {None}
  BY DEF Edge, Traces, Fills
<1>9. cache_req' \in Requests \cup {None}
  BY NextCacheReqType DEF Edge
<1> QED BY <1>1, <1>2, <1>3, <1>4, <1>5, <1>6, <1>7, <1>8, <1>9 DEF TypeOK

LEMMA InitType == LsqInit => TypeOK
<1>1. 0 \in Slots
  BY QueueAssumption DEF Slots
<1>2. Blank(0) \in Entries
  BY <1>1, BlankType
<1> QED BY <1>1, <1>2, ZeroAssumption DEF LsqInit, TypeOK

\* Type correctness of the queue under any inputs whatever.
THEOREM TypeCorrect == LsqSpec => []TypeOK
<1>1. LsqInit => TypeOK
  BY InitType
<1>2. TypeOK /\ [LsqNext]_lsqVars => TypeOK'
  <2> SUFFICES ASSUME TypeOK, [LsqNext]_lsqVars PROVE TypeOK'
    OBVIOUS
  <2>1. CASE LsqNext
    BY <2>1, EdgeType DEF LsqNext
  <2>2. CASE UNCHANGED lsqVars
    BY <2>2 DEF lsqVars, TypeOK
  <2> QED BY <2>1, <2>2
<1> QED BY <1>1, <1>2, PTL DEF LsqSpec

-----------------------------------------------------------------------------
(* The valid bits and the pointers.                                        *)

\* Enqueueing at the tail of a queue that is not full occupies that slot.
LEMMA OccupiedGrows ==
  ASSUME NEW h \in Slots, NEW t \in Slots, Inc(t) # h
  PROVE  Occupied(h, Inc(t)) = Occupied(h, t) \cup {t}
<1>1. AgeRank(h, Inc(t)) = AgeRank(h, t) + 1
  <2>1. Behind(QSIZE, h, (t + 1) % QSIZE) = Behind(QSIZE, h, t) + 1
    BY QueueAssumption, BehindGrows DEF Slots, Inc
  <2> QED BY <2>1, IncType, AgeRankIsBehind DEF Inc
<1>2. ASSUME NEW i \in Slots
      PROVE  AgeRank(h, i) < AgeRank(h, t) + 1 <=> AgeRank(h, i) < AgeRank(h, t) \/ i = t
  <2>1. AgeRank(h, i) \in Nat /\ AgeRank(h, t) \in Nat
    BY AgeRankIsBehind DEF Slots
  <2>2. AgeRank(h, i) = AgeRank(h, t) => i = t
    BY QueueAssumption, AgeRankIsBehind, BehindIsOneToOne DEF Slots
  <2> QED BY <2>1, <2>2
<1> QED BY <1>1, <1>2 DEF Occupied

\* Moving the head of a queue that is not empty frees its slot and no other.
LEMMA OccupiedShrinks ==
  ASSUME NEW h \in Slots, NEW t \in Slots, t # h
  PROVE  Occupied(Inc(h), t) = Occupied(h, t) \ {h}
<1>1. ASSUME NEW i \in Slots
      PROVE  AgeRank(Inc(h), i) = IF i = h THEN QSIZE - 1 ELSE AgeRank(h, i) - 1
  <2>1. Behind(QSIZE, (h + 1) % QSIZE, i)
          = IF i = h THEN QSIZE - 1 ELSE Behind(QSIZE, h, i) - 1
    BY QueueAssumption, BehindShrinks DEF Slots
  <2> QED BY <2>1, IncType, AgeRankIsBehind DEF Inc
<1>2. ASSUME NEW i \in Slots
      PROVE  AgeRank(Inc(h), i) < AgeRank(Inc(h), t)
               <=> AgeRank(h, i) < AgeRank(h, t) /\ i # h
  <2>1. AgeRank(h, i) \in 0 .. (QSIZE - 1) /\ AgeRank(h, t) \in 0 .. (QSIZE - 1)
    BY AgeRankIsBehind DEF Slots
  <2>2. AgeRank(Inc(h), t) = AgeRank(h, t) - 1
    BY <1>1
  <2>3. CASE i = h
    BY <1>1, <2>1, <2>2, <2>3, QueueAssumption
  <2>4. CASE i # h
    BY <1>1, <2>1, <2>2, <2>4, QueueAssumption
  <2> QED BY <2>3, <2>4
<1> QED BY <1>2 DEF Occupied

\* Both on one edge.
LEMMA OccupiedMoves ==
  ASSUME NEW h \in Slots, NEW t \in Slots, NEW grows, NEW shrinks,
         grows => Inc(t) # h, shrinks => t # h
  PROVE  Occupied(IF shrinks THEN Inc(h) ELSE h, IF grows THEN Inc(t) ELSE t)
           = {i \in Slots : \/ grows /\ i = t
                            \/ i \in Occupied(h, t) /\ ~(shrinks /\ i = h)}
<1>1. Occupied(h, t) \in SUBSET Slots
  BY DEF Occupied
<1>2. Inc(t) \in Slots
  BY IncType
<1>3. CASE grows /\ shrinks
  <2>1. Occupied(h, Inc(t)) = Occupied(h, t) \cup {t}
    BY <1>3, OccupiedGrows
  <2>2. Occupied(Inc(h), Inc(t)) = Occupied(h, Inc(t)) \ {h}
    BY <1>2, <1>3, OccupiedShrinks
  <2> QED BY <1>1, <1>3, <2>1, <2>2
<1>4. CASE grows /\ ~shrinks
  BY <1>1, <1>4, OccupiedGrows
<1>5. CASE ~grows /\ shrinks
  BY <1>1, <1>5, OccupiedShrinks
<1>6. CASE ~grows /\ ~shrinks
  BY <1>1, <1>6
<1> QED BY <1>3, <1>4, <1>5, <1>6

LEMMA LoadValid ==
  ASSUME TypeOK, NEW t, NEW hit, NEW pa, NEW ret, NEW word, NEW i \in Slots
  PROVE  NextLoad(t, hit, pa, ret, word, i).valid
           <=> \/ EnqueuesLoad(t) /\ i = load_tail
               \/ loads[i].valid /\ ~RetiresLoad(i)
<1>1. loads[i].valid \in BOOLEAN
  BY DEF TypeOK, Entries
<1> QED BY <1>1 DEF NextLoad, Enqueued, Blank

LEMMA StoreValid ==
  ASSUME TypeOK, NEW t, NEW hit, NEW pa, NEW i \in Slots
  PROVE  NextStore(t, hit, pa, i).valid
           <=> \/ EnqueuesStore(t) /\ i = store_tail
               \/ stores[i].valid /\ ~RetiresStore(i)
<1>1. stores[i].valid \in BOOLEAN
  BY DEF TypeOK, Entries
<1> QED BY <1>1 DEF NextStore, Enqueued, Blank

LEMMA EdgeContiguous ==
  ASSUME TypeOK, QueuesAreContiguous, NEW t, NEW hit, NEW pa, NEW ret, NEW word,
         Edge(t, hit, pa, ret, word)
  PROVE  QueuesAreContiguous'
<1>1. {i \in Slots : loads'[i].valid} = Occupied(load_head', load_tail')
  <2>1. {i \in Slots : loads'[i].valid}
          = {i \in Slots : \/ EnqueuesLoad(t) /\ i = load_tail
                           \/ loads[i].valid /\ ~RetiresLoad(i)}
    BY LoadValid DEF Edge
  <2>2. \A i \in Slots : loads[i].valid <=> i \in Occupied(load_head, load_tail)
    BY DEF QueuesAreContiguous
  <2>3. \A i \in Slots : RetiresLoad(i) <=> RetiresLoad(load_head) /\ i = load_head
    BY DEF RetiresLoad
  <2>4. Occupied(IF RetiresLoad(load_head) THEN Inc(load_head) ELSE load_head,
                 IF EnqueuesLoad(t) THEN Inc(load_tail) ELSE load_tail)
          = {i \in Slots : \/ EnqueuesLoad(t) /\ i = load_tail
                           \/ /\ i \in Occupied(load_head, load_tail)
                              /\ ~(RetiresLoad(load_head) /\ i = load_head)}
    <3>1. EnqueuesLoad(t) => Inc(load_tail) # load_head
      BY DEF EnqueuesLoad, load_is_full
    <3>2. RetiresLoad(load_head) => load_tail # load_head
      BY DEF RetiresLoad, load_is_empty
    <3> QED BY <3>1, <3>2, OccupiedMoves DEF TypeOK
  <2> QED BY <2>1, <2>2, <2>3, <2>4 DEF Edge
<1>2. {i \in Slots : stores'[i].valid} = Occupied(store_head', store_tail')
  <2>1. {i \in Slots : stores'[i].valid}
          = {i \in Slots : \/ EnqueuesStore(t) /\ i = store_tail
                           \/ stores[i].valid /\ ~RetiresStore(i)}
    BY StoreValid DEF Edge
  <2>2. \A i \in Slots : stores[i].valid <=> i \in Occupied(store_head, store_tail)
    BY DEF QueuesAreContiguous
  <2>3. \A i \in Slots : RetiresStore(i) <=> RetiresStore(store_head) /\ i = store_head
    BY DEF RetiresStore
  <2>4. Occupied(IF RetiresStore(store_head) THEN Inc(store_head) ELSE store_head,
                 IF EnqueuesStore(t) THEN Inc(store_tail) ELSE store_tail)
          = {i \in Slots : \/ EnqueuesStore(t) /\ i = store_tail
                           \/ /\ i \in Occupied(store_head, store_tail)
                              /\ ~(RetiresStore(store_head) /\ i = store_head)}
    <3>1. EnqueuesStore(t) => Inc(store_tail) # store_head
      BY DEF EnqueuesStore, store_is_full
    <3>2. RetiresStore(store_head) => store_tail # store_head
      BY DEF RetiresStore, store_is_empty
    <3> QED BY <3>1, <3>2, OccupiedMoves DEF TypeOK
  <2> QED BY <2>1, <2>2, <2>3, <2>4 DEF Edge
<1> QED BY <1>1, <1>2 DEF QueuesAreContiguous

LEMMA InitContiguous == LsqInit => QueuesAreContiguous
<1>1. 0 \in Slots
  BY QueueAssumption DEF Slots
<1>2. Occupied(0, 0) = {}
  <2>1. \A i \in Slots : AgeRank(0, i) \in Nat /\ AgeRank(0, 0) = 0
    BY <1>1, QueueAssumption, AgeRankIsBehind, HeadIsFirst DEF Slots
  <2> QED BY <2>1 DEF Occupied
<1> QED BY <1>1, <1>2 DEF LsqInit, QueuesAreContiguous, Blank

\* The circular queues are never overrun, under any inputs whatever.
THEOREM ContiguousQueues == LsqSpec => []QueuesAreContiguous
<1>1. LsqInit => QueuesAreContiguous
  BY InitContiguous
<1>2. TypeOK /\ QueuesAreContiguous /\ [LsqNext]_lsqVars => QueuesAreContiguous'
  <2> SUFFICES ASSUME TypeOK, QueuesAreContiguous, [LsqNext]_lsqVars
               PROVE  QueuesAreContiguous'
    OBVIOUS
  <2>1. CASE LsqNext
    BY <2>1, EdgeContiguous DEF LsqNext
  <2>2. CASE UNCHANGED lsqVars
    BY <2>2 DEF lsqVars, QueuesAreContiguous
  <2> QED BY <2>1, <2>2
<1> QED BY <1>1, <1>2, TypeCorrect, PTL DEF LsqSpec
=============================================================================
