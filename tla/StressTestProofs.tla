-------------------------- MODULE StressTestProofs --------------------------
(***************************************************************************)
(* Proofs about StressTest.tla: the program with the registers, the load/  *)
(* store queue, the TLB and a memory of words that answers when it likes   *)
(* within LATENCY, for queues, TLBs, pages, words, ids, pauses and         *)
(* latencies of any size that IdAssumption and PaceAssumption allow.       *)
(*                                                                         *)
(* One operation is under way at a time.  A position of the program says   *)
(* what the registers show and which stages the operation may be in; each  *)
(* stage says where it is in queue, TLB and caches.  During an access the  *)
(* stage also bounds the cycles that it still takes, against those that    *)
(* the script still leaves it: that is why it is over when the program     *)
(* goes on, and why no fill meets a lookup and no load another's answer.   *)
(***************************************************************************)
EXTENDS StressTest, LsqProofs, SequenceTheorems

-----------------------------------------------------------------------------
(* The queue with at most one operation in it.  What an edge does in each  *)
(* of the stages of that operation.                                        *)

EmptyQueue(q, head, tail) == tail = head /\ \A i \in Slots : ~q[i].valid
OneEntry(q, head, tail) ==
  tail = Inc(head) /\ \A i \in Slots : q[i].valid <=> i = head

NoLoads  == EmptyQueue(loads, load_head, load_tail)
NoStores == EmptyQueue(stores, store_head, store_tail)
OneLoad  == OneEntry(loads, load_head, load_tail) /\ NoStores
OneStore == OneEntry(stores, store_head, store_tail) /\ NoLoads

\* Nothing in the queue but perhaps a fill on its way to the TLB.
Calm == /\ NoLoads /\ NoStores /\ tlb_pending = None /\ cache_pending = None
        /\ tlb_req = FALSE
\* Its translation is awaited.
LoadAwaits ==
  /\ OneLoad /\ cache_pending = None /\ tlb_fill = None
  /\ ~loads[load_head].resolved /\ ~loads[load_head].vvalid
  /\ tlb_pending = [is_load |-> TRUE, idx |-> load_head]
StoreAwaits(w) ==
  /\ OneStore /\ cache_pending = None /\ tlb_fill = None
  /\ ~stores[store_head].resolved /\ stores[store_head].vvalid
  /\ stores[store_head].data = w
  /\ tlb_pending = [is_load |-> FALSE, idx |-> store_head]
Awaits(op, w) == IF op = "LOAD" THEN LoadAwaits ELSE StoreAwaits(w)
\* A store is about to be written.
StoreReady(p, w) ==
  /\ OneStore /\ tlb_pending = None /\ cache_pending = None
  /\ tlb_req = FALSE /\ tlb_fill = None
  /\ stores[store_head].resolved /\ stores[store_head].vvalid
  /\ stores[store_head].data = w /\ stores[store_head].pa = <<p, 0>>
\* A load is with the caches, and is back.
LoadTaken ==
  /\ OneLoad /\ tlb_pending = None /\ tlb_req = FALSE /\ tlb_fill = None
  /\ loads[load_head].resolved
LoadReading  == LoadTaken /\ ~loads[load_head].vvalid /\ cache_pending = load_head
LoadReturned == LoadTaken /\ loads[load_head].vvalid /\ cache_pending = None

LEMMA NoneIsNothing ==
  /\ \A i \in Slots : i # None
  /\ \A i \in Slots, b \in BOOLEAN : [is_load |-> b, idx |-> i] # None
  /\ \A p \in Vaddrs, a \in PhysAddrs : [vaddr |-> p, paddr |-> a] # None
  /\ \A b \in BOOLEAN, a \in PhysAddrs, w \in Values :
       [we |-> b, paddr |-> a, wdata |-> w] # None
  BY NoneAssumption DEF Slots

LEMMA IncDiffers == \A i \in Slots : Inc(i) # i /\ Inc(i) \in Slots /\ Inc(Inc(i)) # Inc(i)
  BY QueueAssumption DEF Inc, Slots

\* An edge of a calm queue that does not take an access.
LEMMA CalmEdge ==
  ASSUME TypeOK, Calm, NEW t \in Traces, ~IsNew(t) \/ t.op = "FILL",
         NEW hit, hit = FALSE, NEW pa, NEW ret, NEW word, Edge(t, hit, pa, ret, word)
  PROVE  /\ Calm' /\ cache_req' = None
         /\ trace_id_prev' = IF IsNew(t) THEN t.id ELSE trace_id_prev
         /\ tlb_fill' = IF IsNew(t) THEN [vaddr |-> t.vaddr, paddr |-> t.frame] ELSE None
<1>1. ~EnqueuesLoad(t) /\ ~EnqueuesStore(t) /\ ~ResolvesLoad(t) /\ ~ResolvesStore(t)
  BY DEF EnqueuesLoad, EnqueuesStore, ResolvesLoad, ResolvesStore
<1>2. Reruns = {}
  BY DEF Reruns, Calm, NoLoads, EmptyQueue
<1>3. TlbAsks(t) = None
  BY <1>1, <1>2 DEF TlbAsks
<1>4. \A i \in Slots : ~RetiresLoad(i) /\ ~RetiresStore(i)
  BY DEF RetiresLoad, RetiresStore, Calm, NoLoads, NoStores, EmptyQueue
<1>5. load_head \in Slots /\ store_head \in Slots
  BY DEF TypeOK
<1>6. \A i \in Slots : loads'[i] = loads[i] /\ stores'[i] = stores[i]
  BY <1>1, <1>4 DEF Edge, NextLoad, NextStore, Calm, NoLoads, NoStores, EmptyQueue
<1>7. ~LoadTranslated(hit)
  BY DEF LoadTranslated, Translated
<1>8. /\ load_tail' = load_tail /\ store_tail' = store_tail
      /\ load_head' = load_head /\ store_head' = store_head
  BY <1>1, <1>4, <1>5 DEF Edge
<1>9. tlb_pending' = None /\ cache_pending' = None /\ tlb_req' = FALSE /\ cache_req' = None
  BY <1>3, <1>4, <1>5, <1>7 DEF Edge, Calm, NextCacheReq
<1>10. NoLoads' /\ NoStores'
  BY <1>6, <1>8 DEF Calm, NoLoads, NoStores, EmptyQueue
<1>11. /\ trace_id_prev' = IF IsNew(t) THEN t.id ELSE trace_id_prev
       /\ tlb_fill' = IF IsNew(t) THEN [vaddr |-> t.vaddr, paddr |-> t.frame] ELSE None
  BY DEF Edge
<1> QED BY <1>9, <1>10, <1>11 DEF Calm

\* The edge that takes a load or a store.
LEMMA TakeEdge ==
  ASSUME TypeOK, Calm, NEW t \in Traces, IsNew(t), t.op \in {"LOAD", "STORE"},
         t.op = "STORE" => t.dv,
         NEW hit, hit = FALSE, NEW pa, NEW ret, NEW word, Edge(t, hit, pa, ret, word)
  PROVE  /\ Awaits(t.op, t.value)' /\ tlb_req' = TRUE
         /\ cache_req' = None /\ trace_id_prev' = t.id
<1>0. load_head \in Slots /\ store_head \in Slots
  BY DEF TypeOK
<1>1. /\ load_tail = load_head /\ store_tail = store_head
      /\ \A i \in Slots : ~loads[i].valid /\ ~stores[i].valid
      /\ tlb_pending = None /\ cache_pending = None
  BY DEF Calm, NoLoads, NoStores, EmptyQueue
<1>2. ~load_is_full /\ ~store_is_full
  BY <1>0, <1>1, IncDiffers DEF load_is_full, store_is_full
<1>3. t.vv
  BY DEF IsNew
<1>4. /\ EnqueuesLoad(t) <=> t.op = "LOAD"
      /\ EnqueuesStore(t) <=> t.op = "STORE"
      /\ ~ResolvesLoad(t) /\ ~ResolvesStore(t)
  BY <1>2, <1>3 DEF EnqueuesLoad, EnqueuesStore, ResolvesLoad, ResolvesStore
<1>5. \A i \in Slots : ~RetiresLoad(i) /\ ~RetiresStore(i)
  BY <1>1 DEF RetiresLoad, RetiresStore
<1>6. ~LoadTranslated(hit)
  BY DEF LoadTranslated, Translated
<1>7. load_head' = load_head /\ store_head' = store_head /\ cache_req' = None
      /\ tlb_fill' = None /\ trace_id_prev' = t.id
  BY <1>0, <1>5, <1>6 DEF Edge, NextCacheReq
<1>8. cache_pending' = None
  BY <1>1, <1>6 DEF Edge
<1>9. CASE t.op = "LOAD"
  <2>1. TlbAsks(t) = [is_load |-> TRUE, idx |-> load_head]
    BY <1>1, <1>4, <1>9 DEF TlbAsks
  <2>2. TlbAsks(t) # None
    BY <2>1, <1>0, NoneIsNothing
  <2>3. tlb_pending' = [is_load |-> TRUE, idx |-> load_head] /\ tlb_req' = TRUE
    BY <2>1, <2>2 DEF Edge
  <2>4. \A i \in Slots : stores'[i] = stores[i]
    BY <1>1, <1>4, <1>5, <1>9 DEF Edge, NextStore
  <2>5. \A i \in Slots : loads'[i] = IF i = load_head THEN Enqueued(t, store_tail) ELSE loads[i]
    BY <1>1, <1>4, <1>5, <1>9 DEF Edge, NextLoad
  <2>6. Enqueued(t, store_tail).valid = TRUE /\ Enqueued(t, store_tail).resolved = FALSE
        /\ Enqueued(t, store_tail).vvalid = FALSE
    BY <1>9 DEF Enqueued
  <2>7. load_tail' = Inc(load_head) /\ store_tail' = store_head
    BY <1>1, <1>4, <1>9 DEF Edge
  <2>8. OneLoad'
    BY <1>1, <1>7, <2>4, <2>5, <2>6, <2>7 DEF OneLoad, OneEntry, NoStores, EmptyQueue
  <2>9. ~loads'[load_head'].resolved /\ ~loads'[load_head'].vvalid
    BY <1>0, <1>7, <2>5, <2>6
  <2>10. LoadAwaits'
    BY <1>7, <1>8, <2>3, <2>8, <2>9 DEF LoadAwaits
  <2> QED BY <1>7, <1>9, <2>3, <2>10 DEF Awaits
<1>10. CASE t.op = "STORE"
  <2>1. TlbAsks(t) = [is_load |-> FALSE, idx |-> store_head]
    BY <1>1, <1>4, <1>10 DEF TlbAsks
  <2>2. TlbAsks(t) # None
    BY <2>1, <1>0, NoneIsNothing
  <2>3. tlb_pending' = [is_load |-> FALSE, idx |-> store_head] /\ tlb_req' = TRUE
    BY <2>1, <2>2 DEF Edge
  <2>4. \A i \in Slots : loads'[i] = loads[i]
    BY <1>1, <1>4, <1>5, <1>10 DEF Edge, NextLoad
  <2>5. \A i \in Slots : stores'[i] = IF i = store_head THEN Enqueued(t, load_tail) ELSE stores[i]
    BY <1>1, <1>4, <1>5, <1>10 DEF Edge, NextStore
  <2>6. Enqueued(t, load_tail).valid = TRUE /\ Enqueued(t, load_tail).resolved = FALSE
        /\ Enqueued(t, load_tail).vvalid /\ Enqueued(t, load_tail).data = t.value
    BY <1>10 DEF Enqueued
  <2>7. store_tail' = Inc(store_head) /\ load_tail' = load_head
    BY <1>1, <1>4, <1>10 DEF Edge
  <2>8. OneStore'
    BY <1>1, <1>7, <2>4, <2>5, <2>6, <2>7 DEF OneStore, OneEntry, NoLoads, EmptyQueue
  <2>9. ~stores'[store_head'].resolved /\ stores'[store_head'].vvalid
        /\ stores'[store_head'].data = t.value
    BY <1>0, <1>7, <2>5, <2>6
  <2>10. StoreAwaits(t.value)'
    BY <1>7, <1>8, <2>3, <2>8, <2>9 DEF StoreAwaits
  <2> QED BY <1>7, <1>10, <2>3, <2>10 DEF Awaits
<1> QED BY <1>9, <1>10

\* What no edge does when the line on the registers was taken before.
LEMMA NothingTaken ==
  ASSUME NEW t, ~IsNew(t)
  PROVE  /\ ~EnqueuesLoad(t) /\ ~EnqueuesStore(t) /\ ~ResolvesLoad(t) /\ ~ResolvesStore(t)
         /\ tlb_pending # None \/ cache_pending # None \/ Reruns = {} => TlbAsks(t) = None
  BY DEF EnqueuesLoad, EnqueuesStore, ResolvesLoad, ResolvesStore, TlbAsks

\* What an edge does to the entry of the one access.
LEMMA LoadEntryEdge ==
  ASSUME TypeOK, OneLoad, NEW t, ~IsNew(t), TlbAsks(t) = None,
         ~(loads[load_head].resolved /\ loads[load_head].vvalid),
         NEW hit, NEW pa, NEW ret, NEW word, Edge(t, hit, pa, ret, word)
  PROVE  /\ OneLoad' /\ load_head' = load_head /\ tlb_req' = FALSE /\ tlb_fill' = None
         /\ trace_id_prev' = trace_id_prev
         /\ loads'[load_head].resolved
              <=> loads[load_head].resolved \/ TranslatedLoad(hit, load_head)
         /\ loads'[load_head].vvalid
              => loads[load_head].vvalid \/ Returned(ret, load_head)
         /\ Returned(ret, load_head) => loads'[load_head].vvalid
         /\ cache_req' = IF LoadTranslated(hit)
                         THEN [we |-> FALSE, paddr |-> pa, wdata |-> ZeroValue] ELSE None
<1>0. load_head \in Slots /\ store_head \in Slots /\ load_tail \in Slots
  BY DEF TypeOK
<1>1. /\ load_tail = Inc(load_head) /\ store_tail = store_head
      /\ \A i \in Slots : ~stores[i].valid /\ (loads[i].valid <=> i = load_head)
  BY DEF OneLoad, OneEntry, NoStores, EmptyQueue
<1>2. ~EnqueuesLoad(t) /\ ~EnqueuesStore(t) /\ ~ResolvesLoad(t) /\ ~ResolvesStore(t)
  BY NothingTaken
<1>3. \A i \in Slots : ~RetiresLoad(i) /\ ~RetiresStore(i)
  BY <1>1 DEF RetiresLoad, RetiresStore
<1>4. \A i \in Slots : stores'[i] = stores[i]
  BY <1>1, <1>2, <1>3 DEF Edge, NextStore
<1>5. \A i \in Slots : i # load_head => loads'[i] = loads[i]
  BY <1>1, <1>2, <1>3 DEF Edge, NextLoad
<1>6. /\ loads'[load_head].valid
      /\ loads'[load_head].resolved
           <=> loads[load_head].resolved \/ TranslatedLoad(hit, load_head)
      /\ loads'[load_head].vvalid
           <=> \/ Returned(ret, load_head)
               \/ loads[load_head].vvalid /\ load_head \notin final_loads_after_store(t)
  BY <1>0, <1>1, <1>2, <1>3 DEF Edge, NextLoad
<1>7. /\ load_head' = load_head /\ store_head' = store_head
      /\ load_tail' = load_tail /\ store_tail' = store_tail
      /\ tlb_req' = FALSE /\ tlb_fill' = None /\ trace_id_prev' = trace_id_prev
  BY <1>0, <1>2, <1>3 DEF Edge
<1>8. OneLoad'
  BY <1>1, <1>4, <1>5, <1>6, <1>7 DEF OneLoad, OneEntry, NoStores, EmptyQueue
<1>9. cache_req' = IF LoadTranslated(hit)
                   THEN [we |-> FALSE, paddr |-> pa, wdata |-> ZeroValue] ELSE None
  BY <1>0, <1>3 DEF Edge, NextCacheReq
<1> QED BY <1>6, <1>7, <1>8, <1>9

LEMMA StoreEntryEdge ==
  ASSUME TypeOK, OneStore, NEW t, ~IsNew(t), TlbAsks(t) = None,
         ~stores[store_head].resolved,
         NEW hit, NEW pa, NEW ret, NEW word, Edge(t, hit, pa, ret, word)
  PROVE  /\ OneStore' /\ store_head' = store_head /\ tlb_req' = FALSE /\ tlb_fill' = None
         /\ trace_id_prev' = trace_id_prev
         /\ stores'[store_head].resolved <=> TranslatedStore(hit, store_head)
         /\ stores'[store_head].vvalid <=> stores[store_head].vvalid
         /\ stores'[store_head].data = stores[store_head].data
         /\ TranslatedStore(hit, store_head) => stores'[store_head].pa = pa
         /\ ~LoadTranslated(hit) => cache_req' = None
<1>0. load_head \in Slots /\ store_head \in Slots /\ load_tail \in Slots
  BY DEF TypeOK
<1>1. /\ store_tail = Inc(store_head) /\ load_tail = load_head
      /\ \A i \in Slots : ~loads[i].valid /\ (stores[i].valid <=> i = store_head)
  BY DEF OneStore, OneEntry, NoLoads, EmptyQueue
<1>2. ~EnqueuesLoad(t) /\ ~EnqueuesStore(t) /\ ~ResolvesLoad(t) /\ ~ResolvesStore(t)
  BY NothingTaken
<1>3. \A i \in Slots : ~RetiresLoad(i) /\ ~RetiresStore(i)
  BY <1>1 DEF RetiresLoad, RetiresStore
<1>4. \A i \in Slots : loads'[i] = loads[i]
  BY <1>1, <1>2, <1>3 DEF Edge, NextLoad
<1>5. \A i \in Slots : i # store_head => stores'[i] = stores[i]
  BY <1>1, <1>2, <1>3 DEF Edge, NextStore
<1>6. /\ stores'[store_head].valid
      /\ stores'[store_head].resolved <=> TranslatedStore(hit, store_head)
      /\ stores'[store_head].vvalid <=> stores[store_head].vvalid
      /\ stores'[store_head].data = stores[store_head].data
      /\ TranslatedStore(hit, store_head) => stores'[store_head].pa = pa
  BY <1>0, <1>1, <1>2, <1>3 DEF Edge, NextStore
<1>7. /\ load_head' = load_head /\ store_head' = store_head
      /\ load_tail' = load_tail /\ store_tail' = store_tail
      /\ tlb_req' = FALSE /\ tlb_fill' = None /\ trace_id_prev' = trace_id_prev
  BY <1>0, <1>2, <1>3 DEF Edge
<1>8. OneStore'
  BY <1>1, <1>4, <1>5, <1>6, <1>7 DEF OneStore, OneEntry, NoLoads, EmptyQueue
<1>9. ~LoadTranslated(hit) => cache_req' = None
  BY <1>0, <1>3 DEF Edge, NextCacheReq
<1> QED BY <1>6, <1>7, <1>8, <1>9

\* The TLB looks the page up.
LEMMA AwaitEdge ==
  ASSUME TypeOK, NEW op, NEW w, Awaits(op, w), NEW t, ~IsNew(t),
         NEW hit, hit = FALSE, NEW pa, NEW ret, NEW word, Edge(t, hit, pa, ret, word)
  PROVE  /\ Awaits(op, w)' /\ tlb_req' = FALSE
         /\ cache_req' = None /\ trace_id_prev' = trace_id_prev
<1>0. load_head \in Slots /\ store_head \in Slots
  BY DEF TypeOK
<1>1. tlb_pending # None /\ cache_pending = None
  BY <1>0, NoneIsNothing DEF Awaits, LoadAwaits, StoreAwaits
<1>2. TlbAsks(t) = None
  BY <1>1, NothingTaken
<1>3. ~Translated(hit) /\ ~LoadTranslated(hit)
  BY DEF LoadTranslated, Translated
<1>4. \A i \in Slots : ~TranslatedLoad(hit, i) /\ ~TranslatedStore(hit, i) /\ ~Returned(ret, i)
  BY <1>1, <1>3, NoneIsNothing DEF TranslatedLoad, TranslatedStore, Returned
<1>5. tlb_pending' = tlb_pending /\ cache_pending' = None
  BY <1>1, <1>2, <1>3 DEF Edge
<1>6. CASE op = "LOAD"
  <2>1. OneLoad /\ ~loads[load_head].resolved /\ ~loads[load_head].vvalid
        /\ tlb_pending = [is_load |-> TRUE, idx |-> load_head]
    BY <1>6 DEF Awaits, LoadAwaits
  <2>2. /\ OneLoad' /\ load_head' = load_head /\ tlb_req' = FALSE /\ tlb_fill' = None
        /\ trace_id_prev' = trace_id_prev /\ cache_req' = None
        /\ ~loads'[load_head].resolved /\ ~loads'[load_head].vvalid
    BY <1>0, <1>2, <1>3, <1>4, <2>1, LoadEntryEdge
  <2> QED BY <1>5, <1>6, <2>1, <2>2 DEF Awaits, LoadAwaits
<1>7. CASE op # "LOAD"
  <2>1. OneStore /\ ~stores[store_head].resolved /\ stores[store_head].vvalid
        /\ stores[store_head].data = w
        /\ tlb_pending = [is_load |-> FALSE, idx |-> store_head]
    BY <1>7 DEF Awaits, StoreAwaits
  <2>2. /\ OneStore' /\ store_head' = store_head /\ tlb_req' = FALSE /\ tlb_fill' = None
        /\ trace_id_prev' = trace_id_prev /\ cache_req' = None
        /\ ~stores'[store_head].resolved /\ stores'[store_head].vvalid
        /\ stores'[store_head].data = w
    BY <1>0, <1>2, <1>3, <1>4, <2>1, StoreEntryEdge
  <2> QED BY <1>5, <1>7, <2>1, <2>2 DEF Awaits, StoreAwaits
<1> QED BY <1>6, <1>7

\* The TLB answers: a load goes on to the caches at once.
LEMMA LoadHitEdge ==
  ASSUME TypeOK, LoadAwaits, NEW t, ~IsNew(t),
         NEW hit, hit = TRUE, NEW pa, NEW ret, NEW word, Edge(t, hit, pa, ret, word)
  PROVE  /\ LoadReading' /\ trace_id_prev' = trace_id_prev
         /\ cache_req' = [we |-> FALSE, paddr |-> pa, wdata |-> ZeroValue]
<1>0. load_head \in Slots
  BY DEF TypeOK
<1>1. tlb_pending # None /\ cache_pending = None
      /\ tlb_pending.is_load = TRUE /\ tlb_pending.idx = load_head
  BY <1>0, NoneIsNothing DEF LoadAwaits
<1>2. TlbAsks(t) = None
  BY <1>1, NothingTaken
<1>3. LoadTranslated(hit) /\ TranslatedLoad(hit, load_head)
  BY <1>1 DEF LoadTranslated, Translated, TranslatedLoad
<1>4. ~Returned(ret, load_head)
  BY <1>0, <1>1, NoneIsNothing DEF Returned
<1>5. tlb_pending' = None /\ cache_pending' = load_head
  BY <1>1, <1>2, <1>3 DEF Edge
<1>6. OneLoad /\ ~loads[load_head].resolved /\ ~loads[load_head].vvalid
  BY DEF LoadAwaits
<1>7. /\ OneLoad' /\ load_head' = load_head /\ tlb_req' = FALSE /\ tlb_fill' = None
      /\ trace_id_prev' = trace_id_prev
      /\ loads'[load_head].resolved /\ ~loads'[load_head].vvalid
      /\ cache_req' = [we |-> FALSE, paddr |-> pa, wdata |-> ZeroValue]
  BY <1>2, <1>3, <1>4, <1>6, LoadEntryEdge
<1> QED BY <1>5, <1>7 DEF LoadReading, LoadTaken

\* A store becomes ready.
LEMMA StoreHitEdge ==
  ASSUME TypeOK, NEW w, StoreAwaits(w), NEW t, ~IsNew(t), NEW p, NEW pa, pa = <<p, 0>>,
         NEW hit, hit = TRUE, NEW ret, NEW word, Edge(t, hit, pa, ret, word)
  PROVE  StoreReady(p, w)' /\ trace_id_prev' = trace_id_prev /\ cache_req' = None
<1>0. store_head \in Slots
  BY DEF TypeOK
<1>1. tlb_pending # None /\ cache_pending = None
      /\ tlb_pending.is_load = FALSE /\ tlb_pending.idx = store_head
  BY <1>0, NoneIsNothing DEF StoreAwaits
<1>2. TlbAsks(t) = None
  BY <1>1, NothingTaken
<1>3. ~LoadTranslated(hit) /\ TranslatedStore(hit, store_head)
  BY <1>1 DEF LoadTranslated, Translated, TranslatedStore
<1>5. tlb_pending' = None /\ cache_pending' = None
  BY <1>1, <1>2, <1>3 DEF Edge
<1>6. OneStore /\ ~stores[store_head].resolved /\ stores[store_head].vvalid
      /\ stores[store_head].data = w
  BY DEF StoreAwaits
<1>7. /\ OneStore' /\ store_head' = store_head /\ tlb_req' = FALSE /\ tlb_fill' = None
      /\ trace_id_prev' = trace_id_prev
      /\ stores'[store_head].resolved /\ stores'[store_head].vvalid
      /\ stores'[store_head].data = w /\ stores'[store_head].pa = pa
      /\ cache_req' = None
  BY <1>2, <1>3, <1>6, StoreEntryEdge
<1> QED BY <1>5, <1>7 DEF StoreReady

\* The store is written and leaves the queue.
LEMMA StoreWriteEdge ==
  ASSUME TypeOK, NEW p, NEW w, StoreReady(p, w), NEW t, ~IsNew(t),
         NEW hit, hit = FALSE, NEW pa, NEW ret, NEW word, Edge(t, hit, pa, ret, word)
  PROVE  /\ Calm' /\ tlb_fill' = None /\ trace_id_prev' = trace_id_prev
         /\ cache_req' = [we |-> TRUE, paddr |-> <<p, 0>>, wdata |-> w]
<1>0. load_head \in Slots /\ store_head \in Slots /\ load_tail \in Slots
  BY DEF TypeOK
<1>1. /\ store_tail = Inc(store_head) /\ load_tail = load_head
      /\ \A i \in Slots : ~loads[i].valid /\ (stores[i].valid <=> i = store_head)
      /\ tlb_pending = None /\ cache_pending = None
      /\ stores[store_head].resolved /\ stores[store_head].vvalid
      /\ stores[store_head].data = w /\ stores[store_head].pa = <<p, 0>>
  BY DEF StoreReady, OneStore, OneEntry, NoLoads, EmptyQueue
<1>2. Reruns = {}
  BY <1>1 DEF Reruns
<1>3. /\ ~EnqueuesLoad(t) /\ ~EnqueuesStore(t) /\ ~ResolvesLoad(t) /\ ~ResolvesStore(t)
      /\ TlbAsks(t) = None
  BY <1>2, NothingTaken
<1>4. \A i \in Slots : ~RetiresLoad(i) /\ (RetiresStore(i) <=> i = store_head)
  BY <1>0, <1>1, IncDiffers DEF RetiresLoad, RetiresStore, store_is_empty
<1>5. ~suppress_wb_stores_after_store
  BY <1>1 DEF suppress_wb_stores_after_store
<1>6. \A i \in Slots : loads'[i] = loads[i]
  BY <1>1, <1>3, <1>4 DEF Edge, NextLoad
<1>7. \A i \in Slots : ~stores'[i].valid
  BY <1>1, <1>3, <1>4 DEF Edge, NextStore, Blank
<1>8. /\ load_head' = load_head /\ store_head' = Inc(store_head)
      /\ load_tail' = load_tail /\ store_tail' = store_tail
      /\ tlb_req' = FALSE /\ tlb_fill' = None /\ trace_id_prev' = trace_id_prev
  BY <1>0, <1>3, <1>4 DEF Edge
<1>9. ~LoadTranslated(hit)
  BY DEF LoadTranslated, Translated
<1>10. tlb_pending' = None /\ cache_pending' = None
  BY <1>1, <1>3, <1>9 DEF Edge
<1>11. cache_req' = [we |-> TRUE, paddr |-> <<p, 0>>, wdata |-> w]
  BY <1>0, <1>1, <1>4, <1>5 DEF Edge, NextCacheReq
<1> QED BY <1>1, <1>6, <1>7, <1>8, <1>10, <1>11 DEF Calm, NoLoads, NoStores, EmptyQueue

\* A load waits for the caches, and gets its word.
LEMMA ReadingEdge ==
  ASSUME TypeOK, LoadReading, NEW t, ~IsNew(t),
         NEW hit, hit = FALSE, NEW pa, NEW ret \in BOOLEAN, NEW word, Edge(t, hit, pa, ret, word)
  PROVE  /\ cache_req' = None /\ trace_id_prev' = trace_id_prev
         /\ IF ret THEN LoadReturned' ELSE LoadReading'
<1>0. load_head \in Slots
  BY DEF TypeOK
<1>1. tlb_pending = None /\ cache_pending = load_head /\ cache_pending # None
  BY <1>0, NoneIsNothing DEF LoadReading, LoadTaken
<1>2. TlbAsks(t) = None
  BY <1>1, NothingTaken
<1>3. ~LoadTranslated(hit) /\ (Returned(ret, load_head) <=> ret)
  BY <1>1 DEF LoadTranslated, Translated, Returned
<1>4. tlb_pending' = None /\ cache_pending' = IF ret THEN None ELSE load_head
  BY <1>1, <1>2, <1>3 DEF Edge
<1>5. OneLoad /\ loads[load_head].resolved /\ ~loads[load_head].vvalid
  BY DEF LoadReading, LoadTaken
<1>6. /\ OneLoad' /\ load_head' = load_head /\ tlb_req' = FALSE /\ tlb_fill' = None
      /\ trace_id_prev' = trace_id_prev /\ cache_req' = None
      /\ loads'[load_head].resolved /\ (loads'[load_head].vvalid <=> ret)
  BY <1>2, <1>3, <1>5, LoadEntryEdge
<1> QED BY <1>4, <1>6 DEF LoadReading, LoadReturned, LoadTaken

\* The load leaves the queue.
LEMMA ReturnedEdge ==
  ASSUME TypeOK, LoadReturned, NEW t, ~IsNew(t),
         NEW hit, hit = FALSE, NEW pa, NEW ret, NEW word, Edge(t, hit, pa, ret, word)
  PROVE  Calm' /\ tlb_fill' = None /\ cache_req' = None /\ trace_id_prev' = trace_id_prev
<1>0. load_head \in Slots /\ store_head \in Slots /\ load_tail \in Slots
  BY DEF TypeOK
<1>1. /\ load_tail = Inc(load_head) /\ store_tail = store_head
      /\ \A i \in Slots : ~stores[i].valid /\ (loads[i].valid <=> i = load_head)
      /\ tlb_pending = None /\ cache_pending = None
      /\ loads[load_head].resolved /\ loads[load_head].vvalid
  BY DEF LoadReturned, LoadTaken, OneLoad, OneEntry, NoStores, EmptyQueue
<1>2. Reruns = {}
  BY <1>1 DEF Reruns
<1>3. /\ ~EnqueuesLoad(t) /\ ~EnqueuesStore(t) /\ ~ResolvesLoad(t) /\ ~ResolvesStore(t)
      /\ TlbAsks(t) = None
  BY <1>2, NothingTaken
<1>4. \A i \in Slots : ~RetiresStore(i) /\ (RetiresLoad(i) <=> i = load_head)
  BY <1>0, <1>1, IncDiffers DEF RetiresLoad, RetiresStore, load_is_empty
<1>6. \A i \in Slots : stores'[i] = stores[i]
  BY <1>1, <1>3, <1>4 DEF Edge, NextStore
<1>7. \A i \in Slots : ~loads'[i].valid
  BY <1>1, <1>3, <1>4 DEF Edge, NextLoad, Blank
<1>8. /\ store_head' = store_head /\ load_head' = Inc(load_head)
      /\ load_tail' = load_tail /\ store_tail' = store_tail
      /\ tlb_req' = FALSE /\ tlb_fill' = None /\ trace_id_prev' = trace_id_prev
  BY <1>0, <1>3, <1>4 DEF Edge
<1>9. ~LoadTranslated(hit)
  BY DEF LoadTranslated, Translated
<1>10. tlb_pending' = None /\ cache_pending' = None /\ cache_req' = None
  BY <1>0, <1>1, <1>3, <1>4, <1>9 DEF Edge, NextCacheReq
<1> QED BY <1>1, <1>6, <1>7, <1>8, <1>10 DEF Calm, NoLoads, NoStores, EmptyQueue

-----------------------------------------------------------------------------
(* The TLB of a program that maps every page to the frame of its number.   *)

TlbOK ==
  /\ valid \in [TLB!Entries -> BOOLEAN]
  /\ vpn \in [TLB!Entries -> Vaddrs] /\ ppn \in [TLB!Entries -> Vaddrs]
  /\ \A i \in TLB!Entries : valid[i] => ppn[i] = vpn[i]
  /\ lookup_hit_o \in BOOLEAN /\ lookup_paddr_o \in PhysAddrs
Maps(p) == \E i \in TLB!Entries : valid[i] /\ vpn[i] = p

LEMMA SlotsOfTlb == /\ NUM_ENTRIES \in Nat \ {0, 1} /\ TLB!Entries = 0 .. (NUM_ENTRIES - 1)
                    /\ \A n \in Int : TLB!IdxBits(n) \in TLB!Entries
  BY BoardAssumption DEF TLB!Entries, TLB!IdxBits

\* The tree points to a slot, whatever is in it.
LEMMA VictimInRange ==
  ASSUME NEW tree
  PROVE  TLB!victim_idx(tree) \in TLB!Entries
<1> DEFINE L == 0 .. (DEPTH - 1)
           Body(g) == [d \in L |-> IF d = 0 THEN 0 ELSE TLB!Descend(tree, g[d - 1])]
           next == [c \in TLB!Entries |-> TLB!Descend(tree, c)]
           W == TLB!Walk(tree)
<1>0. DEPTH \in Nat \ {0} /\ DEPTH - 1 \in Nat
  BY BoardAssumption
<1>1. \A c \in TLB!Entries : TLB!Descend(tree, c) \in TLB!Entries
  <2>1. \A c \in TLB!Entries : 2 * c + 1 \in Int /\ 2 * c + 2 \in Int
    BY SlotsOfTlb
  <2> QED BY <2>1, SlotsOfTlb DEF TLB!Descend
<1>2. PICK f : IsIteration(f, TLB!Entries, 0, next, DEPTH - 1)
  <2>1. 0 \in TLB!Entries
    BY SlotsOfTlb
  <2>2. next \in [TLB!Entries -> TLB!Entries]
    BY <1>1
  <2> HIDE DEF next
  <2> QED BY <1>0, <2>1, <2>2, IterationExists
<1>3. f = Body(f)
  <2>1. ASSUME NEW d \in L PROVE f[d] = Body(f)[d]
    <3>1. CASE d = 0
      BY <3>1, <1>2 DEF IsIteration
    <3>2. CASE d # 0
      <4>1. d \in 1 .. (DEPTH - 1) /\ d - 1 \in L
        BY <3>2, <1>0
      <4>2. f[d] = next[f[d - 1]] /\ f[d - 1] \in TLB!Entries
        BY <4>1, <1>2 DEF IsIteration
      <4> QED BY <3>2, <4>2
    <3> QED BY <3>1, <3>2
  <2>2. f \in [L -> TLB!Entries]
    BY <1>2 DEF IsIteration
  <2> QED BY <2>1, <2>2
<1>4. W = CHOOSE g : g = Body(g)
  BY DEF TLB!Walk
<1>5. W = Body(W)
  <2> HIDE DEF Body, W
  <2> QED BY <1>3, <1>4
<1> HIDE DEF W
<1>6. W[0] = 0 /\ \A d \in 1 .. (DEPTH - 1) : W[d] = TLB!Descend(tree, W[d - 1])
  BY <1>5, <1>0
<1> HIDE DEF Body
<1>7. W[DEPTH - 1] \in TLB!Entries
  <2> DEFINE Bad == {d \in L : W[d] \notin TLB!Entries}
  <2>1. ASSUME Bad # {} PROVE FALSE
    <3>1. PICK m \in Bad : \A k \in Bad : m <= k
      <4>1. Bad \in SUBSET Nat
        BY <1>0
      <4> HIDE DEF Bad
      <4> QED BY <2>1, <4>1, LeastElement
    <3>2. m # 0
      BY <3>1, <1>6, SlotsOfTlb
    <3>3. m \in 1 .. (DEPTH - 1) /\ m - 1 \in L /\ ~(m <= m - 1)
      BY <3>1, <3>2, <1>0
    <3>4. m - 1 \notin Bad
      <4> HIDE DEF Bad
      <4> QED BY <3>1, <3>3
    <3>5. W[m - 1] \in TLB!Entries
      BY <3>3, <3>4
    <3> QED BY <3>1, <3>3, <3>5, <1>1, <1>6
  <2> QED BY <2>1, <1>0
<1> DEFINE pair == 2 * TLB!IdxBits(W[DEPTH - 1] + NUM_ENTRIES - TLB!PLRU_LEAF_BASE)
<1>8. pair \in Int /\ pair + 1 \in Int
  <2>1. TLB!PLRU_LEAF_BASE \in Int
    BY SlotsOfTlb DEF TLB!PLRU_LEAF_BASE
  <2>2. W[DEPTH - 1] + NUM_ENTRIES - TLB!PLRU_LEAF_BASE \in Int
    <3>1. W[DEPTH - 1] \in Int /\ NUM_ENTRIES \in Int
      BY <1>7, SlotsOfTlb
    <3> QED BY <2>1, <3>1
  <2> DEFINE x == TLB!IdxBits(W[DEPTH - 1] + NUM_ENTRIES - TLB!PLRU_LEAF_BASE)
  <2>3. x \in Int
    BY <2>2, SlotsOfTlb
  <2> HIDE DEF x
  <2>4. 2 * x \in Int /\ 2 * x + 1 \in Int
    BY <2>3
  <2> QED BY <2>4 DEF x
<1>9. TLB!victim_idx(tree)
        = TLB!IdxBits(IF tree[W[DEPTH - 1]] = 1 THEN pair + 1 ELSE pair)
  BY DEF TLB!victim_idx, W
<1> HIDE DEF pair
<1> QED BY <1>8, <1>9, SlotsOfTlb

\* A lookup of a page that is held answers with a slot of it.
LEMMA HitSlot ==
  ASSUME NEW p, TLB!any_hit(p)
  PROVE  /\ TLB!hit_idx(p) \in TLB!Entries
         /\ valid[TLB!hit_idx(p)] /\ vpn[TLB!hit_idx(p)] = p
<1>1. NUM_ENTRIES - 1 \in Nat /\ TLB!Matches(p) \in SUBSET (0 .. (NUM_ENTRIES - 1))
      /\ TLB!Matches(p) # {}
  BY SlotsOfTlb DEF TLB!Matches, TLB!any_hit
<1>2. PICK m \in TLB!Matches(p) : \A k \in TLB!Matches(p) : k <= m
  BY <1>1, GreatestElement
<1>3. TLB!hit_idx(p) \in TLB!Matches(p)
  BY <1>2 DEF TLB!hit_idx, TLB!LastOf
<1> QED BY <1>3 DEF TLB!Matches

LEMMA FillSlot ==
  ASSUME NEW p
  PROVE  TLB!fill_write_idx(p) \in TLB!Entries
<1>1. CASE TLB!any_hit(p)
  BY <1>1, HitSlot DEF TLB!fill_write_idx
<1>2. CASE ~TLB!any_hit(p) /\ TLB!Invalid # {}
  <2>1. TLB!Invalid \in SUBSET Nat
    BY SlotsOfTlb DEF TLB!Invalid
  <2>2. PICK m \in TLB!Invalid : \A k \in TLB!Invalid : m <= k
    BY <2>1, <1>2, LeastElement
  <2>3. TLB!FirstOf(TLB!Invalid) \in TLB!Invalid
    BY <2>2 DEF TLB!FirstOf
  <2> QED BY <1>2, <2>3 DEF TLB!fill_write_idx, TLB!Invalid
<1>3. CASE ~TLB!any_hit(p) /\ TLB!Invalid = {}
  BY <1>3, VictimInRange DEF TLB!fill_write_idx
<1> QED BY <1>1, <1>2, <1>3

LEMMA TlbIdles ==
  ASSUME TlbOK, TLB!NoFill, TLB!NoLookup
  PROVE  TlbOK' /\ lookup_hit_o' = FALSE /\ \A p : Maps(p) <=> Maps(p)'
  BY BoardAssumption, ZeroAssumption DEF TlbOK, TLB!NoFill, TLB!NoLookup, Maps, TLB!Entries

\* Whatever slot a fill takes, it maps its page.
LEMMA TlbFills ==
  ASSUME TlbOK, NEW p \in Vaddrs, TLB!Fill(p, p), TLB!NoLookup
  PROVE  TlbOK' /\ lookup_hit_o' = FALSE /\ Maps(p)'
<1> DEFINE w == TLB!fill_write_idx(p)
<1>1. w \in TLB!Entries
  BY FillSlot
<1>2. /\ valid' = [valid EXCEPT ![w] = TRUE]
      /\ vpn' = [vpn EXCEPT ![w] = p] /\ ppn' = [ppn EXCEPT ![w] = p]
  BY DEF TLB!Fill
<1> HIDE DEF w
<1>3. lookup_hit_o' = FALSE /\ lookup_paddr_o' \in PhysAddrs
  BY BoardAssumption, ZeroAssumption DEF TLB!NoLookup
<1>4. TLB!Entries' = TLB!Entries
  BY DEF TLB!Entries
<1>5. /\ valid' \in [TLB!Entries -> BOOLEAN]
      /\ vpn' \in [TLB!Entries -> Vaddrs] /\ ppn' \in [TLB!Entries -> Vaddrs]
      /\ \A i \in TLB!Entries : valid'[i] => ppn'[i] = vpn'[i]
      /\ valid'[w] /\ vpn'[w] = p
  BY <1>1, <1>2 DEF TlbOK
<1> QED BY <1>1, <1>3, <1>4, <1>5 DEF TlbOK, Maps

LEMMA TlbLooksUp ==
  ASSUME TlbOK, NEW p \in Vaddrs, Maps(p), TLB!NoFill, TLB!Lookup(p, 0)
  PROVE  TlbOK' /\ lookup_hit_o' = TRUE /\ lookup_paddr_o' = <<p, 0>>
<1>1. TLB!any_hit(p)
  BY DEF Maps, TLB!any_hit, TLB!Matches
<1>2. ppn[TLB!hit_idx(p)] = p
  BY <1>1, HitSlot DEF TlbOK
<1>3. lookup_hit_o' = TRUE /\ lookup_paddr_o' = <<p, 0>>
  BY <1>1, <1>2 DEF TLB!Lookup
<1>4. <<p, 0>> \in PhysAddrs
  BY BoardAssumption
<1> QED BY <1>3, <1>4 DEF TlbOK, TLB!NoFill, TLB!Entries

-----------------------------------------------------------------------------
(* Queue, TLB, status and caches: where the one operation is.              *)

CachesIdle == cur = None /\ rvalid = FALSE
Request(op, p, w) ==
  [write |-> op = "STORE", block |-> p, offset |-> 0,
   wdata |-> IF op = "STORE" THEN w ELSE ZeroValue]

Quiet == Calm /\ tlb_fill = None /\ lookup_hit_o = FALSE /\ CachesIdle
Filling(p) ==
  /\ Calm /\ tlb_fill = [vaddr |-> p, paddr |-> <<p, 0>>]
  /\ lookup_hit_o = FALSE /\ CachesIdle
Asked(op, p, w) ==
  /\ Awaits(op, w) /\ tlb_req = TRUE /\ lookup_hit_o = FALSE /\ CachesIdle
  /\ Maps(p)
Looked(op, p, w) ==
  /\ Awaits(op, w) /\ tlb_req = FALSE
  /\ lookup_hit_o = TRUE /\ lookup_paddr_o = <<p, 0>> /\ CachesIdle
Ready(op, p, w) ==
  op = "STORE" /\ StoreReady(p, w) /\ lookup_hit_o = FALSE /\ CachesIdle
InCaches(op, p, w) ==
  /\ IF op = "LOAD" THEN LoadReading ELSE Calm /\ tlb_fill = None
  /\ lookup_hit_o = FALSE /\ cur = Request(op, p, w)
Serving(op, p, w) == InCaches(op, p, w) /\ rvalid = FALSE /\ age <= LATENCY
Answering(op, p, w) ==
  /\ InCaches(op, p, w) /\ rvalid = TRUE
  /\ op = "LOAD" => rload = TRUE /\ rdata = mem[p][0]
Retiring(op) ==
  op = "LOAD" /\ LoadReturned /\ lookup_hit_o = FALSE /\ CachesIdle

RegsA == [op : Ops, id : Ids, vv : BOOLEAN, vaddr : Vaddrs]
RegsB == [value : Values, frame : PhysAddrs, dv : BOOLEAN, clear : BOOLEAN]
RegsOK == reg_a \in RegsA /\ reg_b \in RegsB

CachesOK == /\ mem \in [Vaddrs -> [{0} -> Values]] /\ age \in Nat
            /\ rvalid \in BOOLEAN /\ rload \in BOOLEAN /\ rdata \in Values
            /\ lost = FALSE
BoardOK  == TypeOK /\ TlbOK /\ CachesOK /\ seen \in BOOLEAN /\ ret_data \in Values

Stale == ~IsNew(trace_line)

LEMMA LineType == RegsOK => trace_line \in Traces
  BY DEF RegsOK, RegsA, RegsB, trace_line, Traces

LEMMA HardwareEdgeIs ==
  ASSUME BoardOK, RegsOK, HardwareEdge
  PROVE  /\ \E word \in Values :
              /\ Edge(trace_line, lookup_hit_o, lookup_paddr_o, rvalid, word)
              /\ rvalid /\ rload => word = rdata
              /\ ret_data' = IF reg_b.clear THEN ZeroValue
                             ELSE IF rvalid THEN word ELSE ret_data
         /\ seen' = (~reg_b.clear /\ (seen \/ rvalid))
         /\ TypeOK' /\ seen' \in BOOLEAN /\ ret_data' \in Values
<1>1. PICK v \in Values : BoardEdge(rvalid, IF rload THEN rdata ELSE v)
  BY DEF HardwareEdge
<1> DEFINE word == IF rload THEN rdata ELSE v
<1>2. word \in Values /\ (rvalid /\ rload => word = rdata)
  BY DEF BoardOK, CachesOK
<1>3. /\ Edge(trace_line, lookup_hit_o, lookup_paddr_o, rvalid, word)
      /\ StatusEdge(rvalid, word)
  BY <1>1 DEF BoardEdge
<1>4. /\ seen' = (~reg_b.clear /\ (seen \/ rvalid))
      /\ ret_data' = IF reg_b.clear THEN ZeroValue ELSE IF rvalid THEN word ELSE ret_data
  BY <1>3 DEF StatusEdge, clear_status
<1>5. TypeOK'
  <2>1. /\ trace_line \in Traces /\ lookup_hit_o \in BOOLEAN
        /\ lookup_paddr_o \in PhysAddrs /\ rvalid \in BOOLEAN
    BY LineType DEF BoardOK, CachesOK, TlbOK
  <2> QED BY <1>2, <1>3, <2>1, EdgeType DEF BoardOK
<1> HIDE DEF word
<1>6. ret_data' \in Values
  BY <1>2, <1>4, ZeroAssumption DEF BoardOK
<1> QED BY <1>2, <1>3, <1>4, <1>5, <1>6

LEMMA TlbEdgeIs ==
  ASSUME HardwareEdge
  PROVE  /\ tlb_req = FALSE /\ tlb_fill = None => TLB!NoFill /\ TLB!NoLookup
         /\ tlb_req = FALSE /\ tlb_fill # None
              => TLB!Fill(tlb_fill.vaddr, tlb_fill.paddr[1]) /\ TLB!NoLookup
         /\ tlb_req = TRUE /\ tlb_fill = None
              => TLB!NoFill /\ TLB!Lookup(reg_a.vaddr, 0)
<1>1. TlbEdge
  BY DEF HardwareEdge, BoardEdge
<1> QED BY <1>1 DEF TlbEdge, trace_line, TLB!EdgeIdle, TLB!EdgeFill, TLB!EdgeLookup, TLB!EdgeBoth

LEMMA CachesRest ==
  ASSUME HardwareEdge, CachesIdle, cache_req' = None, CachesOK
  PROVE  CachesIdle' /\ mem' = mem /\ CachesOK'
<1>1. CachesServe
  BY DEF HardwareEdge
<1>2. UNCHANGED <<mem, cur, rvalid, rload, rdata, age>> /\ lost' = lost
  BY <1>1 DEF CachesServe, CachesIdle, NoReq, Caches!Answer, Caches!Release
<1> QED BY <1>2 DEF CachesIdle, CachesOK

LEMMA RequestIsOne ==
  ASSUME NEW op, NEW p \in Vaddrs, NEW w \in Values
  PROVE  Request(op, p, w) # None
<1>1. (op = "STORE") \in BOOLEAN /\ (IF op = "STORE" THEN w ELSE ZeroValue) \in Values
  BY ZeroAssumption
<1>2. Request(op, p, w) \in Reqs
  BY <1>1 DEF Request, Reqs
<1> QED BY <1>2, NoReqAssumption DEF NoReq

LEMMA CachesAccept ==
  ASSUME HardwareEdge, CachesIdle, CachesOK, NEW op \in {"LOAD", "STORE"},
         NEW p \in Vaddrs, NEW w \in Values,
         cache_req' = [we |-> op = "STORE", paddr |-> <<p, 0>>,
                       wdata |-> IF op = "STORE" THEN w ELSE ZeroValue]
  PROVE  /\ cur' = Request(op, p, w) /\ rvalid' = FALSE /\ age' = 0
         /\ mem' = IF op = "STORE" THEN [mem EXCEPT ![p][0] = w] ELSE mem
         /\ CachesOK'
<1>1. cache_req' # None
  <2>1. /\ (op = "STORE") \in BOOLEAN /\ <<p, 0>> \in PhysAddrs
        /\ (IF op = "STORE" THEN w ELSE ZeroValue) \in Values
    BY BoardAssumption, ZeroAssumption
  <2> QED BY <2>1, NoneIsNothing
<1>2. Caches!Accept(MemReq(cache_req')) /\ age' = 0 /\ lost' = lost
  BY <1>1 DEF HardwareEdge, CachesTake, CachesIdle, NoReq
<1>3. MemReq(cache_req') = Request(op, p, w)
  BY DEF MemReq, Request
<1>4. /\ cur' = Request(op, p, w) /\ rvalid' = FALSE /\ rload' = FALSE /\ rdata' = ZeroValue
      /\ mem' = IF op = "STORE" THEN [mem EXCEPT ![p][0] = w] ELSE mem
  <2> DEFINE r == Request(op, p, w)
  <2>1. /\ r.write <=> op = "STORE"
        /\ r.block = p /\ r.offset = 0 /\ (op = "STORE" => r.wdata = w)
    BY DEF Request
  <2>2. Caches!Accept(r)
    BY <1>2, <1>3
  <2> HIDE DEF r
  <2>3. /\ cur' = r /\ rvalid' = FALSE /\ rload' = FALSE /\ rdata' = ZeroValue
        /\ mem' = IF r.write THEN [mem EXCEPT ![r.block][r.offset] = r.wdata] ELSE mem
    BY <2>2 DEF Caches!Accept, Caches!NoAnswer
  <2>4. mem' = IF op = "STORE" THEN [mem EXCEPT ![p][0] = w] ELSE mem
    BY <2>1, <2>3
  <2> QED BY <2>3, <2>4 DEF r
<1>5. mem' \in [Vaddrs -> [{0} -> Values]]
  BY <1>4 DEF CachesOK
<1> QED BY <1>2, <1>4, <1>5, ZeroAssumption DEF CachesOK

\* The two ways a cycle of the caches can go while they serve.
LEMMA CachesWork ==
  ASSUME HardwareEdge, CachesOK, rvalid = FALSE, age <= LATENCY, cache_req' = None,
         NEW op \in {"LOAD", "STORE"}, NEW p \in Vaddrs, NEW w \in Values,
         cur = Request(op, p, w)
  PROVE  /\ CachesOK' /\ mem' = mem /\ cur' = cur
         /\ \/ rvalid' = FALSE /\ age < LATENCY /\ age' = age + 1
            \/ rvalid' = TRUE /\ (op = "LOAD" => rload' = TRUE /\ rdata' = mem[p][0])
<1>1. CachesServe
  BY DEF HardwareEdge
<1>2. cur # None
  BY RequestIsOne
<1>3. lost' = FALSE
  BY <1>1 DEF CachesServe, CachesOK
<1>4. CASE Caches!Answer /\ age' = 0
  <2>1. /\ rvalid' = TRUE /\ rload' = ~(op = "STORE") /\ mem' = mem /\ cur' = cur
        /\ rdata' = IF op = "STORE" THEN ZeroValue ELSE mem[p][0]
    BY <1>4 DEF Caches!Answer, Request
  <2>2. mem[p][0] \in Values
    BY DEF CachesOK
  <2> QED BY <1>3, <1>4, <2>1, <2>2, ZeroAssumption DEF CachesOK
<1>5. CASE /\ age < LATENCY /\ age' = age + 1
           /\ UNCHANGED <<mem, cur, rvalid, rload, rdata>>
  BY <1>3, <1>5 DEF CachesOK
<1> QED BY <1>1, <1>2, <1>4, <1>5 DEF CachesServe, NoReq, Caches!Release

LEMMA CachesDone ==
  ASSUME HardwareEdge, CachesOK, rvalid = TRUE, cache_req' = None,
         NEW op \in {"LOAD", "STORE"}, NEW p \in Vaddrs, NEW w \in Values,
         cur = Request(op, p, w)
  PROVE  CachesOK' /\ mem' = mem /\ CachesIdle'
<1>1. CachesServe
  BY DEF HardwareEdge
<1>2. CASE Caches!Release /\ age' = 0
  BY <1>1, <1>2, ZeroAssumption
     DEF CachesServe, CachesOK, CachesIdle, Caches!Release, Caches!NoAnswer, NoReq
<1>3. cur # None
  BY RequestIsOne
<1> QED BY <1>1, <1>2, <1>3 DEF CachesServe, NoReq, Caches!Answer

-----------------------------------------------------------------------------
(* One cycle of the hardware in each stage.                                *)

Steps == BoardOK /\ RegsOK /\ HardwareEdge

LEMMA QuietStep ==
  ASSUME Steps, Quiet, Stale
  PROVE  /\ BoardOK' /\ Quiet' /\ trace_id_prev' = trace_id_prev /\ mem' = mem
         /\ seen' = (~reg_b.clear /\ seen)
         /\ reg_b.clear = FALSE => ret_data' = ret_data
         /\ cache_req' = None
         /\ \A p : Maps(p) => Maps(p)'
<1>1. PICK word \in Values : Edge(trace_line, lookup_hit_o, lookup_paddr_o, rvalid, word)
  BY HardwareEdgeIs DEF Steps
<1>2. /\ TypeOK' /\ seen' \in BOOLEAN /\ ret_data' \in Values
      /\ seen' = (~reg_b.clear /\ seen)
      /\ reg_b.clear = FALSE => ret_data' = ret_data
  BY HardwareEdgeIs DEF Steps, Quiet, CachesIdle
<1>3. TypeOK /\ TlbOK /\ CachesOK /\ trace_line \in Traces
  BY LineType DEF Steps, BoardOK
<1>4. Calm /\ tlb_req = FALSE /\ tlb_fill = None /\ lookup_hit_o = FALSE /\ CachesIdle
  BY DEF Quiet, Calm
<1>5. /\ Calm' /\ cache_req' = None /\ trace_id_prev' = trace_id_prev /\ tlb_fill' = None
  BY <1>1, <1>3, <1>4, CalmEdge DEF Stale
<1>6. TlbOK' /\ lookup_hit_o' = FALSE /\ \A p : Maps(p) => Maps(p)'
  BY <1>3, <1>4, TlbEdgeIs, TlbIdles DEF Steps
<1>7. CachesIdle' /\ mem' = mem /\ CachesOK'
  BY <1>3, <1>4, <1>5, CachesRest DEF Steps
<1> QED BY <1>2, <1>5, <1>6, <1>7 DEF BoardOK, Quiet

\* The queue sees a fill, and passes it on.
LEMMA FillStep ==
  ASSUME Steps, Quiet, ~Stale, reg_a.op = "FILL",
         NEW p \in Vaddrs, reg_a.vaddr = p, reg_b.frame = <<p, 0>>
  PROVE  /\ BoardOK' /\ Filling(p)' /\ trace_id_prev' = reg_a.id /\ mem' = mem
         /\ cache_req' = None
<1>1. PICK word \in Values : Edge(trace_line, lookup_hit_o, lookup_paddr_o, rvalid, word)
  BY HardwareEdgeIs DEF Steps
<1>2. TypeOK' /\ seen' \in BOOLEAN /\ ret_data' \in Values
  BY HardwareEdgeIs DEF Steps
<1>3. TypeOK /\ TlbOK /\ CachesOK /\ trace_line \in Traces
  BY LineType DEF Steps, BoardOK
<1>4. Calm /\ tlb_req = FALSE /\ tlb_fill = None /\ lookup_hit_o = FALSE /\ CachesIdle
  BY DEF Quiet, Calm
<1>5. IsNew(trace_line) /\ trace_line.op = "FILL" /\ trace_line.id = reg_a.id
      /\ trace_line.vaddr = p /\ trace_line.frame = <<p, 0>>
  BY DEF Stale, trace_line
<1>6. /\ Calm' /\ cache_req' = None /\ trace_id_prev' = reg_a.id
      /\ tlb_fill' = [vaddr |-> p, paddr |-> <<p, 0>>]
  BY <1>1, <1>3, <1>4, <1>5, CalmEdge
<1>7. TlbOK' /\ lookup_hit_o' = FALSE
  BY <1>3, <1>4, TlbEdgeIs, TlbIdles DEF Steps
<1>8. CachesIdle' /\ mem' = mem /\ CachesOK'
  BY <1>3, <1>4, <1>6, CachesRest DEF Steps
<1> QED BY <1>2, <1>6, <1>7, <1>8 DEF BoardOK, Filling

\* The fill reaches the TLB.
LEMMA FilledStep ==
  ASSUME Steps, NEW p \in Vaddrs, Filling(p), Stale
  PROVE  /\ BoardOK' /\ Quiet' /\ Maps(p)' /\ trace_id_prev' = trace_id_prev /\ mem' = mem
         /\ cache_req' = None
<1>1. PICK word \in Values : Edge(trace_line, lookup_hit_o, lookup_paddr_o, rvalid, word)
  BY HardwareEdgeIs DEF Steps
<1>2. TypeOK' /\ seen' \in BOOLEAN /\ ret_data' \in Values
  BY HardwareEdgeIs DEF Steps
<1>3. TypeOK /\ TlbOK /\ CachesOK /\ trace_line \in Traces
  BY LineType DEF Steps, BoardOK
<1>4. Calm /\ tlb_req = FALSE /\ lookup_hit_o = FALSE /\ CachesIdle
      /\ tlb_fill = [vaddr |-> p, paddr |-> <<p, 0>>]
  BY DEF Filling, Calm
<1>5. tlb_fill # None /\ tlb_fill.vaddr = p /\ tlb_fill.paddr[1] = p
  BY <1>4, NoneIsNothing, BoardAssumption
<1>6. /\ Calm' /\ cache_req' = None /\ trace_id_prev' = trace_id_prev /\ tlb_fill' = None
  BY <1>1, <1>3, <1>4, CalmEdge DEF Stale
<1>7. TLB!Fill(p, p) /\ TLB!NoLookup
  BY <1>4, <1>5, TlbEdgeIs DEF Steps
<1>8. TlbOK' /\ lookup_hit_o' = FALSE /\ Maps(p)'
  BY <1>3, <1>7, TlbFills
<1>9. CachesIdle' /\ mem' = mem /\ CachesOK'
  BY <1>3, <1>4, <1>6, CachesRest DEF Steps
<1> QED BY <1>2, <1>6, <1>8, <1>9 DEF BoardOK, Quiet

\* What the registers show while a load or store is under way.
Shows(op, i, p, w) ==
  /\ reg_a = [op |-> op, id |-> i, vv |-> TRUE, vaddr |-> p]
  /\ reg_b.clear = FALSE
  /\ op = "STORE" => reg_b.dv = TRUE /\ reg_b.value = w

\* The queue takes the access and asks for its translation.
LEMMA AskStep ==
  ASSUME Steps, Quiet, NEW op \in {"LOAD", "STORE"}, NEW i, NEW p \in Vaddrs, NEW w \in Values,
         Shows(op, i, p, w), trace_id_prev # i, Maps(p)
  PROVE  /\ BoardOK' /\ Asked(op, p, w)' /\ trace_id_prev' = i /\ mem' = mem /\ seen' = seen
         /\ cache_req' = None
<1>1. PICK word \in Values : Edge(trace_line, lookup_hit_o, lookup_paddr_o, rvalid, word)
  BY HardwareEdgeIs DEF Steps
<1>2. TypeOK' /\ seen' \in BOOLEAN /\ ret_data' \in Values /\ seen' = seen
  BY HardwareEdgeIs DEF Steps, Quiet, CachesIdle, Shows, BoardOK
<1>3. TypeOK /\ TlbOK /\ CachesOK /\ trace_line \in Traces
  BY LineType DEF Steps, BoardOK
<1>4. Calm /\ tlb_req = FALSE /\ tlb_fill = None /\ lookup_hit_o = FALSE /\ CachesIdle
  BY DEF Quiet, Calm
<1>5. IsNew(trace_line) /\ trace_line.op = op /\ trace_line.id = i
      /\ (op = "STORE" => trace_line.dv /\ trace_line.value = w)
  BY DEF Shows, trace_line, IsNew
<1>6. /\ Awaits(op, w)' /\ tlb_req' = TRUE
      /\ cache_req' = None /\ trace_id_prev' = i
  <2> DEFINE t == trace_line
  <2>1. t \in Traces /\ IsNew(t) /\ t.op \in {"LOAD", "STORE"} /\ (t.op = "STORE" => t.dv)
    BY <1>3, <1>5
  <2>2. Edge(t, lookup_hit_o, lookup_paddr_o, rvalid, word)
    BY <1>1
  <2>3. PICK tt : tt = t
    OBVIOUS
  <2>4. Awaits(tt.op, tt.value)' /\ tlb_req' = TRUE /\ cache_req' = None /\ trace_id_prev' = tt.id
    <3> HIDE DEF t
    <3> QED BY <1>3, <1>4, <2>1, <2>2, <2>3, TakeEdge
  <2>5. tt.op = op /\ tt.id = i /\ (op = "STORE" => tt.value = w)
    BY <2>3, <1>5
  <2> QED BY <2>4, <2>5 DEF Awaits
<1>8. TlbOK' /\ lookup_hit_o' = FALSE /\ Maps(p)'
  BY <1>3, <1>4, TlbEdgeIs, TlbIdles DEF Steps
<1>9. CachesIdle' /\ mem' = mem /\ CachesOK'
  BY <1>3, <1>4, <1>6, CachesRest DEF Steps
<1> QED BY <1>2, <1>6, <1>8, <1>9 DEF BoardOK, Asked

\* The TLB looks it up.
LEMMA LookStep ==
  ASSUME Steps, NEW op \in {"LOAD", "STORE"}, NEW p \in Vaddrs, NEW w \in Values,
         Asked(op, p, w), Stale, reg_a.vaddr = p, reg_b.clear = FALSE
  PROVE  /\ BoardOK' /\ Looked(op, p, w)' /\ trace_id_prev' = trace_id_prev
         /\ mem' = mem /\ seen' = seen /\ cache_req' = None
<1>1. PICK word \in Values : Edge(trace_line, lookup_hit_o, lookup_paddr_o, rvalid, word)
  BY HardwareEdgeIs DEF Steps
<1>2. TypeOK' /\ seen' \in BOOLEAN /\ ret_data' \in Values /\ seen' = seen
  BY HardwareEdgeIs DEF Steps, Asked, CachesIdle, BoardOK
<1>3. TypeOK /\ TlbOK /\ CachesOK
  BY DEF Steps, BoardOK
<1>4. Awaits(op, w) /\ tlb_req = TRUE /\ lookup_hit_o = FALSE /\ CachesIdle /\ Maps(p)
  BY DEF Asked
<1>5. tlb_fill = None
  BY <1>4 DEF Awaits, LoadAwaits, StoreAwaits
<1>6. /\ Awaits(op, w)' /\ tlb_req' = FALSE
      /\ cache_req' = None /\ trace_id_prev' = trace_id_prev
  BY <1>1, <1>3, <1>4, AwaitEdge DEF Stale
<1>7. TLB!NoFill /\ TLB!Lookup(p, 0)
  BY <1>4, <1>5, TlbEdgeIs DEF Steps
<1>8. TlbOK' /\ lookup_hit_o' = TRUE /\ lookup_paddr_o' = <<p, 0>>
  BY <1>3, <1>4, <1>7, TlbLooksUp
<1>9. CachesIdle' /\ mem' = mem /\ CachesOK'
  BY <1>3, <1>4, <1>6, CachesRest DEF Steps
<1> QED BY <1>2, <1>6, <1>8, <1>9 DEF BoardOK, Looked

\* A load goes to the caches.
LEMMA LoadStep ==
  ASSUME Steps, NEW p \in Vaddrs, NEW w \in Values,
         Looked("LOAD", p, w), Stale, reg_b.clear = FALSE
  PROVE  /\ BoardOK' /\ Serving("LOAD", p, w)' /\ age' = 0
         /\ trace_id_prev' = trace_id_prev /\ mem' = mem /\ seen' = seen
         /\ cache_req' = [we |-> FALSE, paddr |-> <<p, 0>>, wdata |-> ZeroValue]
<1>1. PICK word \in Values : Edge(trace_line, lookup_hit_o, lookup_paddr_o, rvalid, word)
  BY HardwareEdgeIs DEF Steps
<1>2. TypeOK' /\ seen' \in BOOLEAN /\ ret_data' \in Values /\ seen' = seen
  BY HardwareEdgeIs DEF Steps, Looked, CachesIdle, BoardOK
<1>3. TypeOK /\ TlbOK /\ CachesOK
  BY DEF Steps, BoardOK
<1>4. /\ LoadAwaits /\ tlb_req = FALSE /\ tlb_fill = None
      /\ lookup_hit_o = TRUE /\ lookup_paddr_o = <<p, 0>> /\ CachesIdle
  BY DEF Looked, Awaits, LoadAwaits
<1>5. /\ LoadReading' /\ trace_id_prev' = trace_id_prev
      /\ cache_req' = [we |-> FALSE, paddr |-> <<p, 0>>, wdata |-> ZeroValue]
  BY <1>1, <1>3, <1>4, LoadHitEdge DEF Stale
<1>6. TlbOK' /\ lookup_hit_o' = FALSE
  BY <1>3, <1>4, TlbEdgeIs, TlbIdles DEF Steps
<1>7. /\ cur' = Request("LOAD", p, w) /\ rvalid' = FALSE /\ age' = 0
      /\ mem' = mem /\ CachesOK'
  <2> DEFINE op == "LOAD"
  <2>1. op \in {"LOAD", "STORE"} /\ op # "STORE"
    OBVIOUS
  <2>2. cache_req' = [we |-> op = "STORE", paddr |-> <<p, 0>>,
                      wdata |-> IF op = "STORE" THEN w ELSE ZeroValue]
    BY <1>5
  <2> HIDE DEF op
  <2>3. /\ cur' = Request(op, p, w) /\ rvalid' = FALSE /\ age' = 0
        /\ mem' = mem /\ CachesOK'
    BY <1>3, <1>4, <2>1, <2>2, CachesAccept DEF Steps
  <2> QED BY <2>3 DEF op
<1>8. age' <= LATENCY
  BY <1>7, PaceAssumption
<1> QED BY <1>2, <1>5, <1>6, <1>7, <1>8 DEF BoardOK, Serving, InCaches

\* A store becomes ready to be written.
LEMMA ReadyStep ==
  ASSUME Steps, NEW p \in Vaddrs, NEW w \in Values, Looked("STORE", p, w), Stale
  PROVE  /\ BoardOK' /\ Ready("STORE", p, w)'
         /\ trace_id_prev' = trace_id_prev /\ mem' = mem /\ cache_req' = None
<1>1. PICK word \in Values : Edge(trace_line, lookup_hit_o, lookup_paddr_o, rvalid, word)
  BY HardwareEdgeIs DEF Steps
<1>2. TypeOK' /\ seen' \in BOOLEAN /\ ret_data' \in Values
  BY HardwareEdgeIs DEF Steps
<1>3. TypeOK /\ TlbOK /\ CachesOK
  BY DEF Steps, BoardOK
<1>4. /\ StoreAwaits(w) /\ tlb_req = FALSE /\ tlb_fill = None
      /\ lookup_hit_o = TRUE /\ lookup_paddr_o = <<p, 0>> /\ CachesIdle
  BY DEF Looked, Awaits, StoreAwaits
<1>5. StoreReady(p, w)' /\ trace_id_prev' = trace_id_prev /\ cache_req' = None
  BY <1>1, <1>3, <1>4, StoreHitEdge DEF Stale
<1>6. TlbOK' /\ lookup_hit_o' = FALSE
  BY <1>3, <1>4, TlbEdgeIs, TlbIdles DEF Steps
<1>7. CachesIdle' /\ mem' = mem /\ CachesOK'
  BY <1>3, <1>4, <1>5, CachesRest DEF Steps
<1> QED BY <1>2, <1>5, <1>6, <1>7 DEF BoardOK, Ready

\* A store goes to the caches.
LEMMA WriteStep ==
  ASSUME Steps, NEW p \in Vaddrs, NEW w \in Values, Ready("STORE", p, w), Stale
  PROVE  /\ BoardOK' /\ Serving("STORE", p, w)' /\ age' = 0
         /\ trace_id_prev' = trace_id_prev /\ mem' = [mem EXCEPT ![p][0] = w]
         /\ cache_req' = [we |-> TRUE, paddr |-> <<p, 0>>, wdata |-> w]
<1>1. PICK word \in Values : Edge(trace_line, lookup_hit_o, lookup_paddr_o, rvalid, word)
  BY HardwareEdgeIs DEF Steps
<1>2. TypeOK' /\ seen' \in BOOLEAN /\ ret_data' \in Values
  BY HardwareEdgeIs DEF Steps
<1>3. TypeOK /\ TlbOK /\ CachesOK
  BY DEF Steps, BoardOK
<1>4. /\ StoreReady(p, w) /\ tlb_req = FALSE /\ tlb_fill = None
      /\ lookup_hit_o = FALSE /\ CachesIdle
  BY DEF Ready, StoreReady
<1>5. /\ Calm' /\ tlb_fill' = None /\ trace_id_prev' = trace_id_prev
      /\ cache_req' = [we |-> TRUE, paddr |-> <<p, 0>>, wdata |-> w]
  BY <1>1, <1>3, <1>4, StoreWriteEdge DEF Stale
<1>6. TlbOK' /\ lookup_hit_o' = FALSE
  BY <1>3, <1>4, TlbEdgeIs, TlbIdles DEF Steps
<1>7. /\ cur' = Request("STORE", p, w) /\ rvalid' = FALSE /\ age' = 0
      /\ mem' = [mem EXCEPT ![p][0] = w] /\ CachesOK'
  <2> DEFINE op == "STORE"
  <2>1. op \in {"LOAD", "STORE"} /\ op = "STORE"
    OBVIOUS
  <2>2. cache_req' = [we |-> op = "STORE", paddr |-> <<p, 0>>,
                      wdata |-> IF op = "STORE" THEN w ELSE ZeroValue]
    BY <1>5
  <2> HIDE DEF op
  <2>3. /\ cur' = Request(op, p, w) /\ rvalid' = FALSE /\ age' = 0
        /\ mem' = [mem EXCEPT ![p][0] = w] /\ CachesOK'
    BY <1>3, <1>4, <2>1, <2>2, CachesAccept DEF Steps
  <2> QED BY <2>3 DEF op
<1>8. age' <= LATENCY
  BY <1>7, PaceAssumption
<1> QED BY <1>2, <1>5, <1>6, <1>7, <1>8 DEF BoardOK, Serving, InCaches

\* The caches serve, or answer.
LEMMA ServeStep ==
  ASSUME Steps, NEW op \in {"LOAD", "STORE"}, NEW p \in Vaddrs, NEW w \in Values,
         Serving(op, p, w), Stale, reg_b.clear = FALSE
  PROVE  /\ BoardOK' /\ trace_id_prev' = trace_id_prev /\ mem' = mem /\ seen' = seen
         /\ cache_req' = None
         /\ \/ Serving(op, p, w)' /\ age' = age + 1
            \/ Answering(op, p, w)'
<1>1. PICK word \in Values : Edge(trace_line, lookup_hit_o, lookup_paddr_o, rvalid, word)
  BY HardwareEdgeIs DEF Steps
<1>2. TypeOK' /\ seen' \in BOOLEAN /\ ret_data' \in Values /\ seen' = seen
  BY HardwareEdgeIs DEF Steps, Serving, BoardOK
<1>3. TypeOK /\ TlbOK /\ CachesOK /\ trace_line \in Traces
  BY LineType DEF Steps, BoardOK
<1>4. /\ tlb_req = FALSE /\ tlb_fill = None /\ lookup_hit_o = FALSE /\ rvalid = FALSE
      /\ age <= LATENCY /\ cur = Request(op, p, w)
      /\ IF op = "LOAD" THEN LoadReading ELSE Calm
  BY DEF Serving, InCaches, LoadReading, LoadTaken, Calm
<1>5. /\ cache_req' = None /\ trace_id_prev' = trace_id_prev
      /\ IF op = "LOAD" THEN LoadReading' ELSE Calm' /\ tlb_fill' = None
  <2>1. CASE op = "LOAD"
    BY <1>1, <1>3, <1>4, <2>1, ReadingEdge DEF Stale
  <2>2. CASE op # "LOAD"
    BY <1>1, <1>3, <1>4, <2>2, CalmEdge DEF Stale
  <2> QED BY <2>1, <2>2
<1>6. TlbOK' /\ lookup_hit_o' = FALSE
  BY <1>3, <1>4, TlbEdgeIs, TlbIdles DEF Steps
<1>7. /\ CachesOK' /\ mem' = mem /\ cur' = cur
      /\ \/ rvalid' = FALSE /\ age < LATENCY /\ age' = age + 1
         \/ rvalid' = TRUE /\ (op = "LOAD" => rload' = TRUE /\ rdata' = mem[p][0])
  BY <1>3, <1>4, <1>5, CachesWork DEF Steps
<1>8. InCaches(op, p, w)'
  BY <1>4, <1>5, <1>6, <1>7 DEF InCaches
<1>9. CASE rvalid' = FALSE /\ age < LATENCY /\ age' = age + 1
  <2>1. age' <= LATENCY
    BY <1>3, <1>9, PaceAssumption DEF CachesOK
  <2>2. Serving(op, p, w)'
    BY <1>8, <1>9, <2>1 DEF Serving
  <2> QED BY <1>2, <1>5, <1>6, <1>7, <1>9, <2>2 DEF BoardOK
<1>10. CASE rvalid' = TRUE /\ (op = "LOAD" => rload' = TRUE /\ rdata' = mem[p][0])
  <2>1. Answering(op, p, w)'
    BY <1>7, <1>8, <1>10 DEF Answering
  <2> QED BY <1>2, <1>5, <1>6, <1>7, <2>1 DEF BoardOK
<1> QED BY <1>7, <1>9, <1>10

\* A load gets its word, and so does the status.
LEMMA ReturnStep ==
  ASSUME Steps, NEW p \in Vaddrs, NEW w \in Values,
         Answering("LOAD", p, w), Stale, reg_b.clear = FALSE
  PROVE  /\ BoardOK' /\ Retiring("LOAD")' /\ trace_id_prev' = trace_id_prev
         /\ mem' = mem /\ seen' = TRUE /\ ret_data' = mem[p][0] /\ cache_req' = None
<1>0. rvalid = TRUE /\ rload = TRUE /\ rdata = mem[p][0]
  BY DEF Answering
<1>1. PICK word \in Values : /\ Edge(trace_line, lookup_hit_o, lookup_paddr_o, rvalid, word)
                             /\ word = rdata /\ ret_data' = word
  BY <1>0, HardwareEdgeIs DEF Steps
<1>2. TypeOK' /\ seen' \in BOOLEAN /\ ret_data' \in Values /\ seen' = TRUE
  BY <1>0, HardwareEdgeIs DEF Steps
<1>3. TypeOK /\ TlbOK /\ CachesOK
  BY DEF Steps, BoardOK
<1>4. /\ tlb_req = FALSE /\ tlb_fill = None /\ lookup_hit_o = FALSE
      /\ cur = Request("LOAD", p, w) /\ LoadReading
  BY DEF Answering, InCaches, LoadReading, LoadTaken
<1>5. /\ cache_req' = None /\ trace_id_prev' = trace_id_prev /\ LoadReturned'
  BY <1>0, <1>1, <1>3, <1>4, ReadingEdge DEF Stale
<1>6. TlbOK' /\ lookup_hit_o' = FALSE
  BY <1>3, <1>4, TlbEdgeIs, TlbIdles DEF Steps
<1>7. CachesOK' /\ mem' = mem /\ CachesIdle'
  <2> DEFINE op == "LOAD"
  <2>1. op \in {"LOAD", "STORE"} /\ cur = Request(op, p, w)
    BY <1>4
  <2> HIDE DEF op
  <2> QED BY <1>0, <1>3, <1>5, <2>1, CachesDone DEF Steps
<1> QED BY <1>0, <1>1, <1>2, <1>5, <1>6, <1>7 DEF BoardOK, Retiring

\* A store is acknowledged.
LEMMA AcknowledgeStep ==
  ASSUME Steps, NEW p \in Vaddrs, NEW w \in Values, Answering("STORE", p, w), Stale
  PROVE  /\ BoardOK' /\ Quiet' /\ trace_id_prev' = trace_id_prev
         /\ mem' = mem /\ cache_req' = None
<1>0. rvalid = TRUE
  BY DEF Answering
<1>1. PICK word \in Values : Edge(trace_line, lookup_hit_o, lookup_paddr_o, rvalid, word)
  BY HardwareEdgeIs DEF Steps
<1>2. TypeOK' /\ seen' \in BOOLEAN /\ ret_data' \in Values
  BY HardwareEdgeIs DEF Steps
<1>3. TypeOK /\ TlbOK /\ CachesOK /\ trace_line \in Traces
  BY LineType DEF Steps, BoardOK
<1>4. /\ Calm /\ tlb_req = FALSE /\ tlb_fill = None /\ lookup_hit_o = FALSE
      /\ cur = Request("STORE", p, w)
  BY DEF Answering, InCaches, Calm
<1>5. /\ cache_req' = None /\ trace_id_prev' = trace_id_prev /\ Calm' /\ tlb_fill' = None
  BY <1>1, <1>3, <1>4, CalmEdge DEF Stale
<1>6. TlbOK' /\ lookup_hit_o' = FALSE
  BY <1>3, <1>4, TlbEdgeIs, TlbIdles DEF Steps
<1>7. CachesOK' /\ mem' = mem /\ CachesIdle'
  <2> DEFINE op == "STORE"
  <2>1. op \in {"LOAD", "STORE"} /\ cur = Request(op, p, w)
    BY <1>4
  <2> HIDE DEF op
  <2> QED BY <1>0, <1>3, <1>5, <2>1, CachesDone DEF Steps
<1> QED BY <1>2, <1>5, <1>6, <1>7 DEF BoardOK, Quiet

\* The load leaves the queue.
LEMMA LeaveStep ==
  ASSUME Steps, Retiring("LOAD"), Stale, reg_b.clear = FALSE
  PROVE  /\ BoardOK' /\ Quiet' /\ trace_id_prev' = trace_id_prev
         /\ mem' = mem /\ seen' = seen /\ ret_data' = ret_data /\ cache_req' = None
<1>0. rvalid = FALSE
  BY DEF Retiring, CachesIdle
<1>1. PICK word \in Values : Edge(trace_line, lookup_hit_o, lookup_paddr_o, rvalid, word)
  BY HardwareEdgeIs DEF Steps
<1>2. TypeOK' /\ seen' \in BOOLEAN /\ ret_data' \in Values /\ seen' = seen
      /\ ret_data' = ret_data
  BY <1>0, HardwareEdgeIs DEF Steps, BoardOK
<1>3. TypeOK /\ TlbOK /\ CachesOK
  BY DEF Steps, BoardOK
<1>4. /\ LoadReturned /\ tlb_req = FALSE /\ tlb_fill = None /\ lookup_hit_o = FALSE
      /\ CachesIdle
  BY DEF Retiring, LoadReturned, LoadTaken
<1>5. /\ cache_req' = None /\ trace_id_prev' = trace_id_prev /\ Calm' /\ tlb_fill' = None
  BY <1>1, <1>3, <1>4, ReturnedEdge DEF Stale
<1>6. TlbOK' /\ lookup_hit_o' = FALSE
  BY <1>3, <1>4, TlbEdgeIs, TlbIdles DEF Steps
<1>7. CachesIdle' /\ mem' = mem /\ CachesOK'
  BY <1>3, <1>4, <1>5, CachesRest DEF Steps
<1> QED BY <1>2, <1>5, <1>6, <1>7 DEF BoardOK, Quiet

-----------------------------------------------------------------------------
(* Scripts.                                                                *)

Items == [do : {"reg_a"}, val : RegsA] \cup [do : {"reg_b"}, val : RegsB]
           \cup [do : {"sleep"}, for : Nat] \cup [do : {"poll"}, left : Nat, for : Nat]

LEMMA ConsIs ==
  ASSUME NEW S, NEW x \in S, NEW s \in Seq(S)
  PROVE  /\ <<x>> \o s \in Seq(S) /\ <<x>> \o s # <<>>
         /\ Head(<<x>> \o s) = x /\ Tail(<<x>> \o s) = s
<1>1. <<x>> \in Seq(S) /\ Len(<<x>>) = 1
  OBVIOUS
<1>2. /\ <<x>> \o s \in Seq(S) /\ Len(<<x>> \o s) = 1 + Len(s)
      /\ \A i \in 1 .. 1 + Len(s) :
           (<<x>> \o s)[i] = IF i <= 1 THEN x ELSE s[i - 1]
  BY <1>1, ConcatProperties
<1>3. Len(s) \in Nat
  BY LenProperties
<1> DEFINE c == <<x>> \o s
<1> HIDE DEF c
<1>4. c \in Seq(S) /\ Len(c) = 1 + Len(s)
      /\ \A i \in 1 .. 1 + Len(s) : c[i] = IF i <= 1 THEN x ELSE s[i - 1]
  BY <1>2 DEF c
<1>5. c # <<>>
  BY <1>3, <1>4
<1>6. Head(c) = x
  BY <1>3, <1>4, <1>5
<1>7. Tail(c) = s
  <2>1. Tail(c) \in Seq(S) /\ Len(Tail(c)) = Len(s)
        /\ \A i \in 1 .. Len(s) : Tail(c)[i] = c[i + 1]
    BY <1>3, <1>4, <1>5, HeadTailProperties
  <2>2. \A i \in 1 .. Len(s) : Tail(c)[i] = s[i]
    BY <1>3, <1>4, <2>1
  <2> QED BY <2>1, <2>2, SeqEqual
<1> QED BY <1>4, <1>5, <1>6, <1>7 DEF c

\* One script after another, as an operator that the provers leave alone.
Then(x, y) == x \o y

LEMMA ThenIsAssociative ==
  ASSUME NEW S, NEW x \in Seq(S), NEW y \in Seq(S), NEW z \in Seq(S)
  PROVE  Then(x, y) \in Seq(S) /\ Then(Then(x, y), z) = Then(x, Then(y, z))
<1>1. x \o y \in Seq(S)
  BY ConcatProperties
<1>2. (x \o y) \o z = x \o (y \o z)
  BY SMT
<1> QED BY <1>1, <1>2 DEF Then

LEMMA ItemTypes ==
  /\ \A x \in RegsA : SetA(x) \in Seq(Items)
  /\ \A x \in RegsB : SetB(x) \in Seq(Items)
  /\ \A n \in Nat : usleep(n) \in Seq(Items)
  /\ \A n \in Nat : PollStatus(n) \in Seq(Items)
<1>1. \A x \in RegsA : [do |-> "reg_a", val |-> x] \in Items
  BY DEF Items
<1>2. \A x \in RegsB : [do |-> "reg_b", val |-> x] \in Items
  BY DEF Items
<1>3. \A n \in Nat : [do |-> "sleep", for |-> n] \in Items
  BY DEF Items
<1>4. \A n \in Nat : [do |-> "poll", left |-> n, for |-> POLL_SLEEP] \in Items
  BY PaceAssumption DEF Items
<1> QED BY <1>1, <1>2, <1>3, <1>4 DEF SetA, SetB, usleep, PollStatus

Program ==
  \/ main \/ Runs \/ check
  \/ \E page \in Vaddrs : do_load(page)
  \/ \E page \in Vaddrs, word \in Values : do_store(page, word)

progVars == <<g_id, expected, checking, verdict>>
KeepsRegs == reg_a' = reg_a /\ reg_b' = reg_b

\* What the program can do next, from what is left of its script.
LEMMA ProgramStep ==
  ASSUME Program, NEW x \in Items, NEW s \in Seq(Items), script = <<x>> \o s
  PROVE  \/ KeepsRegs /\ script' = script /\ UNCHANGED progVars
         \/ /\ x.do = "reg_a" /\ reg_a' = x.val /\ reg_b' = reg_b
            /\ script' = s /\ UNCHANGED progVars
         \/ /\ x.do = "reg_b" /\ reg_b' = x.val /\ reg_a' = reg_a
            /\ script' = s /\ UNCHANGED progVars
         \/ /\ x.do \in {"sleep", "poll"} /\ x.for > 0 /\ KeepsRegs
            /\ script' = <<[x EXCEPT !.for = x.for - 1]>> \o s /\ UNCHANGED progVars
         \/ /\ x.do = "sleep" /\ x.for = 0 /\ KeepsRegs
            /\ script' = s /\ UNCHANGED progVars
         \/ /\ x.do = "poll" /\ x.for = 0 /\ KeepsRegs /\ ~seen /\ x.left # 1
            /\ script' = PollStatus(x.left - 1) \o s /\ UNCHANGED progVars
         \/ /\ x.do = "poll" /\ x.for = 0 /\ KeepsRegs /\ (seen \/ x.left = 1)
            /\ script' = s /\ checking' = None /\ g_id' = g_id /\ expected' = expected
            /\ verdict' = IF ~seen THEN "timeout"
                          ELSE IF ret_data = expected[checking] THEN "pass" ELSE "fail"
<1>1. ~Done /\ Head(script) = x /\ Tail(script) = s
  BY ConsIs DEF Done
<1>2. ~main /\ (\A page : ~do_load(page)) /\ (\A page, word : ~do_store(page, word))
  BY <1>1 DEF main, do_load, do_store
<1>3. CASE Runs
  <2>1. UNCHANGED progVars
    BY <1>3 DEF Runs, progVars
  <2>2. CASE WriteReg
    BY <1>1, <2>1, <2>2 DEF WriteReg
  <2>3. CASE Sleep
    BY <1>1, <2>1, <2>3 DEF Sleep, KeepsRegs
  <2>4. CASE Wake
    BY <1>1, <2>1, <2>4 DEF Wake, KeepsRegs
  <2>5. CASE Poll /\ ~LastPoll
    BY <1>1, <2>1, <2>5 DEF Poll, LastPoll, KeepsRegs
  <2>6. CASE HpsWaits
    BY <2>1, <2>6 DEF HpsWaits, KeepsRegs
  <2> QED BY <1>3, <2>2, <2>3, <2>4, <2>5, <2>6 DEF Runs
<1>4. CASE check
  BY <1>1, <1>4 DEF check, Poll, LastPoll, KeepsRegs
<1> QED BY <1>2, <1>3, <1>4 DEF Program

-----------------------------------------------------------------------------
(* The routines of the program: a fill, the clearing of the status and an  *)
(* access, and what is left of the script at each position.                *)

Routines == [op : {"LOAD", "STORE"}, id : 1 .. MAX_ID, page : Vaddrs, word : Values]

FillWord(r)   == [ZeroB EXCEPT !.frame = <<r.page, 0>>]
AccessWord(r) ==
  IF r.op = "STORE" THEN [ZeroB EXCEPT !.value = r.word, !.dv = TRUE] ELSE ZeroB
Pause(r)   == IF r.op = "STORE" THEN usleep(STORE_SLEEP) ELSE PollStatus(POLLS)

Rest8(r)    == SetA(A(r.op, nid(r.id), r.page)) \o Pause(r)
Rest7(r)    == SetB(AccessWord(r)) \o Rest8(r)
Rest6(r)    == SetB(ZeroB) \o Rest7(r)
Rest5(r)    == SetB(Sentinel) \o Rest6(r)
Rest4(r)    == SetA(ZeroA) \o Rest5(r)
Rest3(r, n) == usleep(n) \o Rest4(r)
Rest2(r)    == SetA(A("FILL", r.id, r.page)) \o Rest3(r, FILL_SLEEP)
Rest1(r)    == SetB(FillWord(r)) \o Rest2(r)

\* The pages whose word in memory is the one last stored.
Remembers(S) == \A p \in S : expected[p] # None => mem[p][0] = expected[p]
\* Before a store is written, all but its page.
Unwritten(r) == IF r.op = "STORE" THEN Vaddrs \ {r.page} ELSE Vaddrs

\* Before the access: the fill, and the status.
FillTaken(r) ==
  trace_id_prev = r.id /\ (Filling(r.page) \/ (Quiet /\ Maps(r.page)))
ShowsFill(r) == reg_a = A("FILL", r.id, r.page) /\ reg_b = FillWord(r)
Filled(r)    == reg_a = ZeroA /\ trace_id_prev = r.id /\ Quiet /\ Maps(r.page)

AtFillWord(r) == script = Rest1(r) /\ Quiet /\ Stale /\ trace_id_prev # r.id
AtFillLine(r) ==
  /\ script = Rest2(r) /\ Quiet /\ Stale /\ trace_id_prev # r.id
  /\ reg_b = FillWord(r)
AtFillSleep(r) ==
  /\ \E n \in Nat : script = Rest3(r, n)
  /\ ShowsFill(r) /\ ((Quiet /\ trace_id_prev # r.id) \/ FillTaken(r))
AtClear(r)     == script = Rest4(r) /\ ShowsFill(r) /\ FillTaken(r)
AtSentinel(r)  == script = Rest5(r) /\ Filled(r)
AtClearWord(r) == script = Rest6(r) /\ Filled(r) /\ reg_b = Sentinel
AtWord(r) == script = Rest7(r) /\ Filled(r) /\ reg_b = ZeroB /\ seen = FALSE
AtLine(r) == script = Rest8(r) /\ Filled(r) /\ reg_b = AccessWord(r) /\ seen = FALSE

\* The access, which is over within n cycles: for a store when nothing is in
\* flight any more, for a load when the status has its word.
Margin(r) == IF r.op = "STORE" THEN 1 ELSE 0
Untaken(r, n) ==
  /\ trace_id_prev = r.id /\ Quiet /\ Maps(r.page) /\ n >= LATENCY + 5 + Margin(r)
Asking(r, n) ==
  /\ trace_id_prev = nid(r.id) /\ Asked(r.op, r.page, r.word)
  /\ n >= LATENCY + 4 + Margin(r)
Looking(r, n) ==
  /\ trace_id_prev = nid(r.id) /\ Looked(r.op, r.page, r.word)
  /\ n >= LATENCY + 3 + Margin(r)
Writing(r, n) ==
  /\ trace_id_prev = nid(r.id) /\ Ready(r.op, r.page, r.word) /\ n >= LATENCY + 3
InService(r, n) ==
  /\ trace_id_prev = nid(r.id) /\ Serving(r.op, r.page, r.word) /\ n + age >= LATENCY + 2
Arriving(r, n) ==
  /\ trace_id_prev = nid(r.id) /\ Answering(r.op, r.page, r.word) /\ n >= 1
Over(r) ==
  /\ trace_id_prev = nid(r.id) /\ (Retiring(r.op) \/ Quiet) /\ Remembers(Vaddrs)
  /\ r.op = "LOAD" => seen = TRUE /\ ret_data = mem[r.page][0]

Within(r, n) ==
  \/ /\ r.op = "LOAD" => seen = FALSE
     /\ Remembers(Unwritten(r))
     /\ Untaken(r, n) \/ Asking(r, n) \/ Looking(r, n) \/ Writing(r, n)
  \/ /\ r.op = "LOAD" => seen = FALSE
     /\ Remembers(Vaddrs)
     /\ InService(r, n) \/ Arriving(r, n)
  \/ Over(r)

ShowsAccess(r) == reg_a = A(r.op, nid(r.id), r.page) /\ reg_b = AccessWord(r)
AtPause(r) ==
  r.op = "STORE" /\ \E n \in Nat : script = usleep(n) /\ Within(r, n + 1)
AtPoll(r) ==
  /\ r.op = "LOAD"
  /\ \E l \in Nat \ {0}, k \in Nat :
       /\ script = <<[do |-> "poll", left |-> l, for |-> k]>>
       /\ Within(r, k + (l - 1) * (POLL_SLEEP + 1))

Goal(r) ==
  /\ g_id = nid(nid(r.id)) /\ verdict = "none"
  /\ IF r.op = "STORE" THEN checking = None /\ expected[r.page] = r.word
     ELSE checking = r.page /\ expected[r.page] # None
Preparing(r) ==
  /\ Remembers(Unwritten(r))
  /\ \/ AtFillWord(r) \/ AtFillLine(r) \/ AtFillSleep(r) \/ AtClear(r)
     \/ AtSentinel(r) \/ AtClearWord(r) \/ AtWord(r) \/ AtLine(r)
Accessing(r) == ShowsAccess(r) /\ (AtPause(r) \/ AtPoll(r))

\* Between routines, and in the one that writes the NOP.
Nop     == [ZeroA EXCEPT !.op = "NOP", !.id = NoId]
NopLine == SetA(Nop) \o usleep(FILL_SLEEP)
NopWord == SetB(ZeroB) \o NopLine
Idling ==
  /\ Quiet /\ Stale /\ trace_id_prev # g_id /\ checking = None /\ Remembers(Vaddrs)
  /\ script = <<>> \/ script = NopWord \/ script = NopLine \/ \E n \in Nat : script = usleep(n)

ProgOK == /\ g_id \in 1 .. MAX_ID /\ verdict \in {"start", "none", "pass"}
          /\ expected \in [Vaddrs -> Values \cup {None}]

PInv == /\ BoardOK /\ RegsOK /\ ProgOK
        /\ Idling \/ \E r \in Routines : Goal(r) /\ (Preparing(r) \/ Accessing(r))

\* What a cycle may put on the cache port.
RequestIsTheLines ==
  cache_req' # None => /\ cache_req'.paddr = <<reg_a.vaddr, 0>>
                       /\ cache_req'.we = (reg_a.op = "STORE")
                       /\ cache_req'.we => cache_req'.wdata = reg_b.value

LEMMA RemembersStill ==
  ASSUME NEW S, Remembers(S), mem' = mem, expected' = expected
  PROVE  Remembers(S)'
  BY DEF Remembers

LEMMA NextId ==
  ASSUME NEW i \in 1 .. MAX_ID
  PROVE  nid(i) \in 1 .. MAX_ID /\ nid(i) # i /\ nid(i) \in Ids
  BY IdAssumption DEF nid

LEMMA ShownIsStale ==
  reg_a.id = trace_id_prev \/ (reg_a.vv = FALSE /\ reg_a.op # "FILL") => Stale
  BY DEF Stale, IsNew, trace_line

\* One cycle of the hardware brings the access one cycle nearer its end.
LEMMA FlightStep ==
  ASSUME Steps, NEW r \in Routines, ShowsAccess(r), expected' = expected,
         r.op = "STORE" => expected[r.page] = r.word,
         NEW n \in Nat, NEW m \in Nat, n <= m + 1, Within(r, n)
  PROVE  BoardOK' /\ Within(r, m)' /\ RequestIsTheLines
<1> DEFINE op == r.op
           p == r.page
           w == r.word
           i == nid(r.id)
<1>1. op \in {"LOAD", "STORE"} /\ p \in Vaddrs /\ w \in Values /\ r.id \in 1 .. MAX_ID
  BY DEF Routines
<1>2. /\ Shows(op, i, p, w) /\ reg_b.clear = FALSE /\ reg_a.vaddr = p
      /\ reg_a.op = op /\ reg_a.id = i
  BY <1>1 DEF ShowsAccess, Shows, AccessWord, A, ZeroB
<1>3. i # r.id
  BY <1>1, NextId
<1>4. LATENCY \in Nat
  BY PaceAssumption
<1>5. op = "STORE" => reg_b.value = w
  BY <1>2 DEF Shows
<1>6. cache_req' = None => RequestIsTheLines
  BY DEF RequestIsTheLines
<1>7. trace_id_prev = i => Stale
  BY <1>2, ShownIsStale
<1>8. Unwritten(r) = IF op = "STORE" THEN Vaddrs \ {p} ELSE Vaddrs
  BY DEF Unwritten
<1>9. Margin(r) = IF op = "STORE" THEN 1 ELSE 0
  BY DEF Margin
<1> HIDE DEF op, p, w, i
<1>10. CASE (op = "LOAD" => seen = FALSE) /\ Remembers(Unwritten(r)) /\ Untaken(r, n)
  <2>1. /\ BoardOK' /\ Asked(op, p, w)' /\ trace_id_prev' = i /\ mem' = mem /\ seen' = seen
        /\ cache_req' = None
    BY <1>1, <1>2, <1>3, <1>10, AskStep DEF Untaken, op, p, w, i
  <2>2. Asking(r, m)'
    BY <1>4, <1>9, <1>10, <2>1 DEF Asking, Untaken, op, p, w, i
  <2>3. Remembers(Unwritten(r))'
    BY <1>10, <2>1, RemembersStill DEF Unwritten
  <2> QED BY <1>6, <1>10, <2>1, <2>2, <2>3 DEF Within, op
<1>11. CASE (op = "LOAD" => seen = FALSE) /\ Remembers(Unwritten(r)) /\ Asking(r, n)
  <2>1. trace_id_prev = i /\ Asked(op, p, w)
    BY <1>11 DEF Asking, op, p, w, i
  <2>2. /\ BoardOK' /\ Looked(op, p, w)' /\ trace_id_prev' = i /\ mem' = mem /\ seen' = seen
        /\ cache_req' = None
    BY <1>1, <1>2, <1>7, <2>1, LookStep
  <2>3. Looking(r, m)'
    BY <1>4, <1>9, <1>11, <2>2 DEF Asking, Looking, op, p, w, i
  <2>4. Remembers(Unwritten(r))'
    BY <1>11, <2>2, RemembersStill DEF Unwritten
  <2> QED BY <1>6, <1>11, <2>2, <2>3, <2>4 DEF Within, op
<1>12. CASE (op = "LOAD" => seen = FALSE) /\ Remembers(Unwritten(r)) /\ Looking(r, n)
  <2>1. trace_id_prev = i /\ Looked(op, p, w)
    BY <1>12 DEF Looking, op, p, w, i
  <2>2. CASE op = "LOAD"
    <3>1. /\ BoardOK' /\ Serving("LOAD", p, w)' /\ age' = 0
          /\ trace_id_prev' = i /\ mem' = mem /\ seen' = seen
          /\ cache_req' = [we |-> FALSE, paddr |-> <<p, 0>>, wdata |-> ZeroValue]
      BY <1>1, <1>2, <1>7, <2>1, <2>2, LoadStep
    <3>2. InService(r, m)'
      BY <1>4, <1>9, <1>12, <2>2, <3>1 DEF Looking, InService, op, p, w, i
    <3>3. Remembers(Vaddrs)'
      BY <1>8, <1>12, <2>2, <3>1, RemembersStill
    <3>4. RequestIsTheLines
      BY <1>2, <2>2, <3>1 DEF RequestIsTheLines
    <3> QED BY <1>12, <3>1, <3>2, <3>3, <3>4 DEF Within, op
  <2>3. CASE op = "STORE"
    <3>1. /\ BoardOK' /\ Ready("STORE", p, w)'
          /\ trace_id_prev' = i /\ mem' = mem /\ cache_req' = None
      BY <1>1, <1>2, <1>7, <2>1, <2>3, ReadyStep
    <3>2. Writing(r, m)'
      BY <1>4, <1>9, <1>12, <2>3, <3>1 DEF Looking, Writing, op, p, w, i
    <3>3. Remembers(Unwritten(r))'
      BY <1>12, <3>1, RemembersStill DEF Unwritten
    <3> QED BY <1>6, <2>3, <3>1, <3>2, <3>3 DEF Within, op
  <2> QED BY <1>1, <2>2, <2>3
<1>13. CASE (op = "LOAD" => seen = FALSE) /\ Remembers(Unwritten(r)) /\ Writing(r, n)
  <2>1. trace_id_prev = i /\ Ready("STORE", p, w) /\ op = "STORE"
    BY <1>13 DEF Writing, Ready, op, p, w, i
  <2>2. /\ BoardOK' /\ Serving("STORE", p, w)' /\ age' = 0
        /\ trace_id_prev' = i /\ mem' = [mem EXCEPT ![p][0] = w]
        /\ cache_req' = [we |-> TRUE, paddr |-> <<p, 0>>, wdata |-> w]
    BY <1>1, <1>2, <1>7, <2>1, WriteStep
  <2>3. InService(r, m)'
    BY <1>4, <1>9, <1>13, <2>1, <2>2 DEF Writing, InService, op, p, w, i
  <2>4. Remembers(Vaddrs)'
    <3>1. expected[p] = w
      BY <2>1 DEF op, p, w
    <3>2. \A q \in Vaddrs \ {p} : mem'[q] = mem[q]
      BY <2>2 DEF Steps, BoardOK, CachesOK
    <3>3. mem'[p][0] = w
      BY <1>1, <2>2 DEF Steps, BoardOK, CachesOK
    <3> QED BY <1>8, <1>13, <2>1, <3>1, <3>2, <3>3 DEF Remembers
  <2>5. RequestIsTheLines
    BY <1>2, <1>5, <2>1, <2>2 DEF RequestIsTheLines
  <2> QED BY <2>1, <2>2, <2>3, <2>4, <2>5 DEF Within, op
<1>14. CASE (op = "LOAD" => seen = FALSE) /\ Remembers(Vaddrs) /\ InService(r, n)
  <2>1. trace_id_prev = i /\ Serving(op, p, w)
    BY <1>14 DEF InService, op, p, w, i
  <2>2. /\ BoardOK' /\ trace_id_prev' = i /\ mem' = mem /\ seen' = seen /\ cache_req' = None
        /\ \/ Serving(op, p, w)' /\ age' = age + 1
           \/ Answering(op, p, w)'
    BY <1>1, <1>2, <1>7, <2>1, ServeStep
  <2>3. Remembers(Vaddrs)'
    BY <1>14, <2>2, RemembersStill
  <2>4. n + age >= LATENCY + 2 /\ age <= LATENCY /\ age \in Nat
    BY <1>14 DEF InService, Serving, Steps, BoardOK, CachesOK
  <2>5. InService(r, m)' \/ Arriving(r, m)'
    <3>1. n >= 2 /\ m >= 1
      BY <1>4, <2>4
    <3>2. CASE Serving(op, p, w)' /\ age' = age + 1
      <4>1. m + age' >= LATENCY + 2
        BY <1>4, <2>4, <3>2
      <4> QED BY <2>2, <3>2, <4>1 DEF InService, op, p, w, i
    <3>3. CASE Answering(op, p, w)'
      BY <2>2, <3>1, <3>3 DEF Arriving, op, p, w, i
    <3> QED BY <2>2, <3>2, <3>3
  <2> QED BY <1>6, <1>14, <2>2, <2>3, <2>5 DEF Within, op
<1>15. CASE (op = "LOAD" => seen = FALSE) /\ Remembers(Vaddrs) /\ Arriving(r, n)
  <2>1. trace_id_prev = i /\ Answering(op, p, w)
    BY <1>15 DEF Arriving, op, p, w, i
  <2>2. CASE op = "LOAD"
    <3>1. /\ BoardOK' /\ Retiring("LOAD")' /\ trace_id_prev' = i
          /\ mem' = mem /\ seen' = TRUE /\ ret_data' = mem[p][0] /\ cache_req' = None
      BY <1>1, <1>2, <1>7, <2>1, <2>2, ReturnStep
    <3>2. Remembers(Vaddrs)'
      BY <1>15, <3>1, RemembersStill
    <3>3. Over(r)'
      BY <2>2, <3>1, <3>2 DEF Over, op, p, i
    <3> QED BY <1>6, <3>1, <3>3 DEF Within
  <2>3. CASE op = "STORE"
    <3>1. /\ BoardOK' /\ Quiet' /\ trace_id_prev' = i
          /\ mem' = mem /\ cache_req' = None
      BY <1>1, <1>2, <1>7, <2>1, <2>3, AcknowledgeStep
    <3>2. Remembers(Vaddrs)'
      BY <1>15, <3>1, RemembersStill
    <3>3. Over(r)'
      BY <2>3, <3>1, <3>2 DEF Over, op, p, i
    <3> QED BY <1>6, <3>1, <3>3 DEF Within
  <2> QED BY <1>1, <2>2, <2>3
<1>16. CASE Over(r)
  <2>1. trace_id_prev = i /\ Remembers(Vaddrs)
        /\ (op = "LOAD" => seen = TRUE /\ ret_data = mem[p][0])
    BY <1>16 DEF Over, op, p, i
  <2>2. /\ BoardOK' /\ Quiet' /\ trace_id_prev' = i /\ mem' = mem
        /\ seen' = seen /\ ret_data' = ret_data /\ cache_req' = None
    <3>1. CASE Retiring("LOAD")
      BY <1>2, <1>7, <2>1, <3>1, LeaveStep
    <3>2. CASE Quiet
      BY <1>2, <1>7, <2>1, <3>2, QuietStep DEF Steps, BoardOK
    <3> QED BY <1>16, <3>1, <3>2 DEF Over, Retiring
  <2>3. Remembers(Vaddrs)'
    BY <2>1, <2>2, RemembersStill
  <2>4. Over(r)'
    BY <2>1, <2>2, <2>3 DEF Over, op, p, i
  <2> QED BY <1>6, <2>2, <2>4 DEF Within
<1> QED BY <1>10, <1>11, <1>12, <1>13, <1>14, <1>15, <1>16 DEF Within, op

-----------------------------------------------------------------------------
(* The program, position by position.                                      *)

LEMMA WordTypes ==
  /\ ZeroA \in RegsA /\ Nop \in RegsA /\ ZeroB \in RegsB /\ Sentinel \in RegsB
  /\ \A r \in Routines :
       /\ FillWord(r) \in RegsB /\ AccessWord(r) \in RegsB
       /\ A("FILL", r.id, r.page) \in RegsA /\ A(r.op, nid(r.id), r.page) \in RegsA
<1>1. ZeroA \in RegsA /\ Nop \in RegsA
  BY ZeroAssumption, BoardAssumption DEF ZeroA, Nop, RegsA, Ops
<1>2. ZeroB \in RegsB /\ Sentinel \in RegsB
  BY ZeroAssumption DEF ZeroB, Sentinel, RegsB
<1>3. ASSUME NEW r \in Routines
      PROVE  /\ FillWord(r) \in RegsB /\ AccessWord(r) \in RegsB
             /\ A("FILL", r.id, r.page) \in RegsA /\ A(r.op, nid(r.id), r.page) \in RegsA
  <2>1. r.op \in {"LOAD", "STORE"} /\ r.page \in Vaddrs /\ r.word \in Values /\ r.id \in 1 .. MAX_ID
    BY DEF Routines
  <2>2. FillWord(r) \in RegsB /\ AccessWord(r) \in RegsB
    BY <2>1, <1>2, BoardAssumption DEF FillWord, AccessWord, RegsB
  <2>3. r.id \in Ids /\ nid(r.id) \in Ids
    BY <2>1, NextId, IdAssumption
  <2> QED BY <2>1, <2>2, <2>3 DEF A, RegsA, Ops
<1> QED BY <1>1, <1>2, <1>3

LEMMA RestTypes ==
  ASSUME NEW r \in Routines
  PROVE  /\ Pause(r) \in Seq(Items) /\ Rest8(r) \in Seq(Items) /\ Rest7(r) \in Seq(Items)
         /\ Rest6(r) \in Seq(Items) /\ Rest5(r) \in Seq(Items) /\ Rest4(r) \in Seq(Items)
         /\ \A n \in Nat : Rest3(r, n) \in Seq(Items)
         /\ Rest2(r) \in Seq(Items) /\ Rest1(r) \in Seq(Items)
<1> DEFINE Q == Seq(Items)
<1>1. \A s, t \in Q : s \o t \in Q
  BY ConcatProperties
<1>2. /\ \A x \in RegsA : SetA(x) \in Q
      /\ \A x \in RegsB : SetB(x) \in Q
      /\ \A n \in Nat : usleep(n) \in Q
      /\ \A n \in Nat : PollStatus(n) \in Q
  BY ItemTypes
<1>3. FILL_SLEEP \in Nat /\ STORE_SLEEP \in Nat /\ POLLS \in Nat
  BY PaceAssumption
<1> HIDE DEF Q
<1>4. Pause(r) \in Q
  BY <1>2, <1>3 DEF Pause
<1>5. Rest8(r) \in Q
  BY <1>1, <1>2, <1>4, WordTypes DEF Rest8
<1>6. Rest7(r) \in Q
  BY <1>1, <1>2, <1>5, WordTypes DEF Rest7
<1>7. Rest6(r) \in Q
  BY <1>1, <1>2, <1>6, WordTypes DEF Rest6
<1>8. Rest5(r) \in Q
  BY <1>1, <1>2, <1>7, WordTypes DEF Rest5
<1>9. Rest4(r) \in Q
  BY <1>1, <1>2, <1>8, WordTypes DEF Rest4
<1>10. \A n \in Nat : Rest3(r, n) \in Q
  BY <1>1, <1>2, <1>9 DEF Rest3
<1>11. Rest2(r) \in Q
  BY <1>1, <1>2, <1>3, <1>10, WordTypes DEF Rest2
<1>12. Rest1(r) \in Q
  BY <1>1, <1>2, <1>11, WordTypes DEF Rest1
<1> QED BY <1>4, <1>5, <1>6, <1>7, <1>8, <1>9, <1>10, <1>11, <1>12 DEF Q

LEMMA NopTypes == NopLine \in Seq(Items) /\ NopWord \in Seq(Items)
<1>1. SetA(Nop) \in Seq(Items) /\ SetB(ZeroB) \in Seq(Items) /\ usleep(FILL_SLEEP) \in Seq(Items)
  BY ItemTypes, WordTypes, PaceAssumption
<1>2. NopLine \in Seq(Items)
  BY <1>1, ConcatProperties DEF NopLine
<1> QED BY <1>1, <1>2, ConcatProperties DEF NopWord

\* The program stands still for a cycle.
Stands == KeepsRegs /\ script' = script /\ UNCHANGED progVars

LEMMA AtSetA ==
  ASSUME Program, NEW x \in RegsA, NEW s \in Seq(Items), script = SetA(x) \o s
  PROVE  Stands \/ (reg_a' = x /\ reg_b' = reg_b /\ script' = s /\ UNCHANGED progVars)
<1> DEFINE i == [do |-> "reg_a", val |-> x]
<1>1. i \in Items /\ i.do = "reg_a" /\ i.val = x /\ script = <<i>> \o s
  BY DEF Items, SetA
<1> HIDE DEF i
<1> QED BY <1>1, ProgramStep DEF Stands

LEMMA AtSetB ==
  ASSUME Program, NEW x \in RegsB, NEW s \in Seq(Items), script = SetB(x) \o s
  PROVE  Stands \/ (reg_b' = x /\ reg_a' = reg_a /\ script' = s /\ UNCHANGED progVars)
<1> DEFINE i == [do |-> "reg_b", val |-> x]
<1>1. i \in Items /\ i.do = "reg_b" /\ i.val = x /\ script = <<i>> \o s
  BY DEF Items, SetB
<1> HIDE DEF i
<1> QED BY <1>1, ProgramStep DEF Stands

LEMMA AtSleep ==
  ASSUME Program, NEW n \in Nat, NEW s \in Seq(Items), script = usleep(n) \o s
  PROVE  /\ KeepsRegs /\ UNCHANGED progVars
         /\ script' = script \/ (n > 0 /\ script' = usleep(n - 1) \o s) \/ (n = 0 /\ script' = s)
<1> DEFINE i == [do |-> "sleep", for |-> n]
<1>1. /\ i \in Items /\ i.do = "sleep" /\ i.for = n /\ script = <<i>> \o s
      /\ [i EXCEPT !.for = i.for - 1] = [do |-> "sleep", for |-> n - 1]
  BY DEF Items, usleep
<1> HIDE DEF i
<1> QED BY <1>1, ProgramStep DEF usleep

LEMMA AtOnlySleep ==
  ASSUME Program, NEW n \in Nat, script = usleep(n)
  PROVE  /\ KeepsRegs /\ UNCHANGED progVars
         /\ script' = script \/ (n > 0 /\ script' = usleep(n - 1)) \/ (n = 0 /\ script' = <<>>)
<1>1. \A m \in Int : usleep(m) \o <<>> = usleep(m)
  BY DEF usleep
<1>2. <<>> \in Seq(Items) /\ script = usleep(n) \o <<>>
  BY <1>1
<1>3. /\ KeepsRegs /\ UNCHANGED progVars
      /\ \/ script' = script \/ (n > 0 /\ script' = usleep(n - 1) \o <<>>)
         \/ (n = 0 /\ script' = <<>>)
  <2> DEFINE e == <<>>
  <2>1. e \in Seq(Items) /\ script = usleep(n) \o e
    BY <1>2
  <2> HIDE DEF e
  <2>2. /\ KeepsRegs /\ UNCHANGED progVars
        /\ script' = script \/ (n > 0 /\ script' = usleep(n - 1) \o e) \/ (n = 0 /\ script' = e)
    BY <2>1, AtSleep
  <2> QED BY <2>2 DEF e
<1>4. n - 1 \in Int
  OBVIOUS
<1> QED BY <1>1, <1>3, <1>4

LEMMA AtOnlyPoll ==
  ASSUME Program, NEW l \in Nat \ {0}, NEW k \in Nat,
         script = <<[do |-> "poll", left |-> l, for |-> k]>>
  PROVE  /\ KeepsRegs
         /\ \/ script' = script /\ UNCHANGED progVars
            \/ /\ k > 0 /\ script' = <<[do |-> "poll", left |-> l, for |-> k - 1]>>
               /\ UNCHANGED progVars
            \/ /\ k = 0 /\ ~seen /\ l # 1 /\ UNCHANGED progVars
               /\ script' = <<[do |-> "poll", left |-> l - 1, for |-> POLL_SLEEP]>>
            \/ /\ k = 0 /\ (seen \/ l = 1) /\ script' = <<>>
               /\ checking' = None /\ g_id' = g_id /\ expected' = expected
               /\ verdict' = IF ~seen THEN "timeout"
                             ELSE IF ret_data = expected[checking] THEN "pass" ELSE "fail"
<1> DEFINE i == [do |-> "poll", left |-> l, for |-> k]
<1>1. \A x : <<x>> \o <<>> = <<x>>
  OBVIOUS
<1>2. /\ i \in Items /\ i.do = "poll" /\ i.left = l /\ i.for = k /\ script = <<i>> \o <<>>
      /\ [i EXCEPT !.for = i.for - 1] = [do |-> "poll", left |-> l, for |-> k - 1]
  BY <1>1 DEF Items
<1>3. <<>> \in Seq(Items) /\ PollStatus(l - 1) \o <<>> = <<[do |-> "poll", left |-> l - 1, for |-> POLL_SLEEP]>>
  BY DEF PollStatus
<1> HIDE DEF i
<1>4. \A j : <<j>> \o <<>> = <<j>>
  BY <1>1
<1> QED BY <1>2, <1>3, <1>4, ProgramStep

Noticed == reg_a' # reg_a /\ reg_a'.vv => reg_a'.id # trace_id_prev'
Fine    == PInv' /\ RequestIsTheLines /\ Noticed

\* A cycle in which the routine goes on.
Cycle(r) == Steps /\ Program /\ ProgOK /\ r \in Routines /\ Goal(r)

LEMMA GoesOn ==
  ASSUME NEW r, Cycle(r), UNCHANGED progVars, BoardOK', reg_a' \in RegsA, reg_b' \in RegsB,
         Preparing(r)' \/ Accessing(r)'
  PROVE  PInv'
<1>1. r \in Routines /\ Goal(r)' /\ ProgOK' /\ RegsOK'
  BY DEF Cycle, progVars, Goal, ProgOK, RegsOK
<1> QED BY <1>1 DEF PInv

LEMMA StaleStill ==
  ASSUME Stale, reg_a' = reg_a, trace_id_prev' = trace_id_prev
  PROVE  Stale'
  BY DEF Stale, IsNew, trace_line

LEMMA NothingShown ==
  ASSUME cache_req' = None, reg_a' = reg_a \/ reg_a'.vv = FALSE \/ reg_a'.id # trace_id_prev'
  PROVE  RequestIsTheLines /\ Noticed
  BY DEF RequestIsTheLines, Noticed

LEMMA RemembersUnwritten ==
  ASSUME NEW r, Remembers(Unwritten(r)), mem' = mem, expected' = expected
  PROVE  Remembers(Unwritten(r))'
  BY DEF Remembers, Unwritten

LEMMA StandsKeeps ==
  ASSUME Steps, KeepsRegs
  PROVE  reg_a' \in RegsA /\ reg_b' \in RegsB
  BY DEF Steps, RegsOK, KeepsRegs

\* What a quiet cycle of a routine leaves.
LEMMA QuietCycle ==
  ASSUME NEW r, Cycle(r), Quiet, Stale, Remembers(Unwritten(r)), UNCHANGED progVars,
         reg_a' \in RegsA, reg_b' \in RegsB,
         reg_a' = reg_a \/ reg_a'.vv = FALSE \/ reg_a'.id # trace_id_prev
  PROVE  /\ BoardOK' /\ Quiet' /\ trace_id_prev' = trace_id_prev
         /\ seen' = (~reg_b.clear /\ seen)
         /\ Maps(r.page) => Maps(r.page)'
         /\ Remembers(Unwritten(r))'
         /\ reg_a' = reg_a => Stale'
         /\ Preparing(r)' \/ Accessing(r)' => Fine
<1>1. /\ BoardOK' /\ Quiet' /\ trace_id_prev' = trace_id_prev /\ mem' = mem
      /\ seen' = (~reg_b.clear /\ seen) /\ cache_req' = None
      /\ \A p : Maps(p) => Maps(p)'
  BY QuietStep DEF Cycle
<1>2. Remembers(Unwritten(r))'
  BY <1>1, RemembersUnwritten DEF progVars
<1>3. reg_a' = reg_a => Stale'
  BY <1>1, StaleStill
<1>4. RequestIsTheLines /\ Noticed
  BY <1>1, NothingShown
<1>5. Preparing(r)' \/ Accessing(r)' => PInv'
  BY <1>1, GoesOn
<1>6. Maps(r.page) => Maps(r.page)'
  <2> DEFINE p == r.page
  <2>1. Maps(p) => Maps(p)'
    BY <1>1
  <2> QED BY <2>1
<1> QED BY <1>1, <1>2, <1>3, <1>4, <1>5, <1>6 DEF Fine

LEMMA AtFillWordStep ==
  ASSUME NEW r, Cycle(r), Remembers(Unwritten(r)), AtFillWord(r)
  PROVE  Fine
<1>1. /\ r \in Routines /\ Steps /\ Program /\ Quiet /\ Stale /\ trace_id_prev # r.id
      /\ script = SetB(FillWord(r)) \o Rest2(r)
  BY DEF Cycle, AtFillWord, Rest1
<1>2. FillWord(r) \in RegsB /\ Rest2(r) \in Seq(Items)
  BY <1>1, WordTypes, RestTypes
<1>3. \/ Stands
      \/ reg_b' = FillWord(r) /\ reg_a' = reg_a /\ script' = Rest2(r) /\ UNCHANGED progVars
  BY <1>1, <1>2, AtSetB
<1>4. reg_a' = reg_a /\ reg_a' \in RegsA /\ reg_b' \in RegsB /\ UNCHANGED progVars
  BY <1>1, <1>2, <1>3, StandsKeeps DEF Stands, KeepsRegs, Steps, RegsOK
<1>5. /\ Quiet' /\ Stale' /\ trace_id_prev' = trace_id_prev /\ Remembers(Unwritten(r))'
      /\ Preparing(r)' => Fine
  BY <1>1, <1>4, QuietCycle
<1>6. AtFillWord(r)' \/ AtFillLine(r)'
  BY <1>1, <1>3, <1>5 DEF AtFillWord, AtFillLine, Stands, Rest1
<1> QED BY <1>5, <1>6 DEF Preparing

LEMMA AtFillLineStep ==
  ASSUME NEW r, Cycle(r), Remembers(Unwritten(r)), AtFillLine(r)
  PROVE  Fine
<1> DEFINE a == A("FILL", r.id, r.page)
<1>1. /\ r \in Routines /\ Steps /\ Program /\ Quiet /\ Stale /\ trace_id_prev # r.id
      /\ script = SetA(a) \o Rest3(r, FILL_SLEEP) /\ reg_b = FillWord(r)
  BY DEF Cycle, AtFillLine, Rest2
<1>2. a \in RegsA /\ a.id = r.id /\ Rest3(r, FILL_SLEEP) \in Seq(Items) /\ FILL_SLEEP \in Nat
  BY <1>1, WordTypes, RestTypes, PaceAssumption DEF A
<1> HIDE DEF a
<1>3. \/ Stands
      \/ /\ reg_a' = a /\ reg_b' = reg_b /\ script' = Rest3(r, FILL_SLEEP)
         /\ UNCHANGED progVars
  BY <1>1, <1>2, AtSetA
<1>4. /\ reg_a' \in RegsA /\ reg_b' \in RegsB /\ UNCHANGED progVars
      /\ reg_a' = reg_a \/ reg_a'.id # trace_id_prev
      /\ reg_b' = reg_b
  BY <1>1, <1>2, <1>3, StandsKeeps DEF Stands, KeepsRegs, Steps, RegsOK
<1>5. /\ Quiet' /\ trace_id_prev' = trace_id_prev /\ Remembers(Unwritten(r))'
      /\ reg_a' = reg_a => Stale'
      /\ Preparing(r)' => Fine
  BY <1>1, <1>4, QuietCycle
<1>6. CASE Stands
  <2>1. reg_a' = reg_a /\ reg_b' = reg_b /\ script' = script
    BY <1>6 DEF Stands, KeepsRegs
  <2>2. AtFillLine(r)'
    BY <1>1, <1>5, <2>1 DEF AtFillLine, Rest2, a
  <2> QED BY <1>5, <2>2 DEF Preparing
<1>7. CASE reg_a' = a /\ reg_b' = reg_b /\ script' = Rest3(r, FILL_SLEEP)
  <2>1. AtFillSleep(r)'
    BY <1>1, <1>2, <1>5, <1>7 DEF AtFillSleep, ShowsFill, FillWord, a
  <2> QED BY <1>5, <2>1 DEF Preparing
<1> QED BY <1>3, <1>6, <1>7

\* What a cycle does to a fill: it is seen, it reaches the TLB, it is there.
LEMMA FillCycle ==
  ASSUME NEW r, Cycle(r), ShowsFill(r), Remembers(Unwritten(r)), UNCHANGED progVars,
         reg_a' \in RegsA, reg_b' \in RegsB, reg_a' = reg_a \/ reg_a'.vv = FALSE,
         (Quiet /\ trace_id_prev # r.id) \/ FillTaken(r)
  PROVE  /\ FillTaken(r)'
         /\ FillTaken(r) => (Quiet /\ Maps(r.page))'
         /\ Remembers(Unwritten(r))'
         /\ Preparing(r)' => Fine
<1> DEFINE p == r.page
<1>1. /\ r \in Routines /\ Steps /\ p \in Vaddrs /\ reg_a.op = "FILL" /\ reg_a.vv = TRUE
      /\ reg_a.id = r.id /\ reg_a.vaddr = p /\ reg_b.frame = <<p, 0>>
  BY DEF Cycle, Routines, ShowsFill, A, FillWord, ZeroB
<1> HIDE DEF p
<1>2. CASE Quiet /\ trace_id_prev # r.id
  <2>1. ~Stale
    BY <1>1, <1>2 DEF Stale, IsNew, trace_line
  <2>2. /\ BoardOK' /\ Filling(p)' /\ trace_id_prev' = r.id /\ mem' = mem /\ cache_req' = None
    BY <1>1, <1>2, <2>1, FillStep
  <2>3. ~FillTaken(r)
    BY <1>2 DEF FillTaken
  <2>4. FillTaken(r)'
    BY <2>2 DEF FillTaken, p
  <2>5. Remembers(Unwritten(r))'
    BY <2>2, RemembersUnwritten DEF progVars
  <2>6. Preparing(r)' => Fine
    BY <2>2, GoesOn, NothingShown DEF Fine
  <2> QED BY <2>3, <2>4, <2>5, <2>6
<1>3. CASE FillTaken(r)
  <2>1. trace_id_prev = r.id /\ Stale
    BY <1>1, <1>3, ShownIsStale DEF FillTaken
  <2>2. /\ BoardOK' /\ Quiet' /\ Maps(p)' /\ trace_id_prev' = r.id /\ mem' = mem
        /\ cache_req' = None
    <3>1. CASE Filling(p)
      BY <1>1, <2>1, <3>1, FilledStep
    <3>2. CASE Quiet /\ Maps(p)
      BY <1>1, <2>1, <3>2, QuietStep
    <3> QED BY <1>3, <3>1, <3>2 DEF FillTaken, p
  <2>3. FillTaken(r)' /\ (Quiet /\ Maps(r.page))'
    BY <2>2 DEF FillTaken, p
  <2>4. Remembers(Unwritten(r))'
    BY <2>2, RemembersUnwritten DEF progVars
  <2>5. Preparing(r)' => Fine
    BY <2>2, GoesOn, NothingShown DEF Fine
  <2> QED BY <2>3, <2>4, <2>5
<1> QED BY <1>2, <1>3

LEMMA AtFillSleepStep ==
  ASSUME NEW r, Cycle(r), Remembers(Unwritten(r)), AtFillSleep(r)
  PROVE  Fine
<1>1. /\ r \in Routines /\ Steps /\ Program /\ ShowsFill(r)
      /\ (Quiet /\ trace_id_prev # r.id) \/ FillTaken(r)
  BY DEF Cycle, AtFillSleep
<1>2. PICK n \in Nat : script = usleep(n) \o Rest4(r)
  BY DEF AtFillSleep, Rest3
<1>3. Rest4(r) \in Seq(Items)
  BY <1>1, RestTypes
<1>4. /\ KeepsRegs /\ UNCHANGED progVars
      /\ \/ script' = script \/ (n > 0 /\ script' = usleep(n - 1) \o Rest4(r))
         \/ (n = 0 /\ script' = Rest4(r))
  BY <1>1, <1>2, <1>3, AtSleep
<1>5. reg_a' = reg_a /\ reg_b' = reg_b /\ reg_a' \in RegsA /\ reg_b' \in RegsB
  BY <1>1, <1>4, StandsKeeps DEF KeepsRegs
<1>6. FillTaken(r)' /\ Remembers(Unwritten(r))' /\ (Preparing(r)' => Fine)
  BY <1>1, <1>4, <1>5, FillCycle
<1>7. ShowsFill(r)'
  BY <1>1, <1>5 DEF ShowsFill
<1>8. AtFillSleep(r)' \/ AtClear(r)'
  <2>1. CASE script' = script
    BY <1>2, <1>6, <1>7, <2>1 DEF AtFillSleep, Rest3
  <2>2. CASE n > 0 /\ script' = usleep(n - 1) \o Rest4(r)
    <3>1. n - 1 \in Nat
      BY <2>2
    <3> QED BY <1>6, <1>7, <2>2, <3>1 DEF AtFillSleep, Rest3
  <2>3. CASE script' = Rest4(r)
    BY <1>6, <1>7, <2>3 DEF AtClear
  <2> QED BY <1>4, <2>1, <2>2, <2>3
<1> QED BY <1>6, <1>8 DEF Preparing

LEMMA AtClearStep ==
  ASSUME NEW r, Cycle(r), Remembers(Unwritten(r)), AtClear(r)
  PROVE  Fine
<1>1. /\ r \in Routines /\ Steps /\ Program /\ ShowsFill(r) /\ FillTaken(r)
      /\ script = SetA(ZeroA) \o Rest5(r)
  BY DEF Cycle, AtClear, Rest4
<1>2. ZeroA \in RegsA /\ ZeroA.vv = FALSE /\ Rest5(r) \in Seq(Items)
  BY <1>1, WordTypes, RestTypes DEF ZeroA
<1>3. \/ Stands
      \/ reg_a' = ZeroA /\ reg_b' = reg_b /\ script' = Rest5(r) /\ UNCHANGED progVars
  BY <1>1, <1>2, AtSetA
<1>4. /\ reg_a' \in RegsA /\ reg_b' \in RegsB /\ UNCHANGED progVars
      /\ reg_a' = reg_a \/ reg_a'.vv = FALSE
  BY <1>1, <1>2, <1>3, StandsKeeps DEF Stands, KeepsRegs, Steps, RegsOK
<1>5. /\ FillTaken(r)' /\ (Quiet /\ Maps(r.page))' /\ Remembers(Unwritten(r))'
      /\ Preparing(r)' => Fine
  BY <1>1, <1>4, FillCycle
<1>6. CASE Stands
  <2>1. AtClear(r)'
    BY <1>1, <1>5, <1>6 DEF AtClear, ShowsFill, Stands, KeepsRegs, Rest4
  <2> QED BY <1>5, <2>1 DEF Preparing
<1>7. CASE reg_a' = ZeroA /\ script' = Rest5(r)
  <2>1. AtSentinel(r)'
    BY <1>5, <1>7 DEF AtSentinel, Filled, FillTaken, ZeroA
  <2> QED BY <1>5, <2>1 DEF Preparing
<1> QED BY <1>3, <1>6, <1>7

\* A cycle after the fill: the page stays mapped.
LEMMA FilledCycle ==
  ASSUME NEW r, Cycle(r), Filled(r), Remembers(Unwritten(r)), UNCHANGED progVars,
         reg_a' \in RegsA, reg_b' \in RegsB,
         reg_a' = reg_a \/ reg_a'.vv = FALSE \/ reg_a'.id # r.id
  PROVE  /\ (Quiet /\ Maps(r.page) /\ trace_id_prev = r.id)'
         /\ seen' = (~reg_b.clear /\ seen)
         /\ Remembers(Unwritten(r))'
         /\ reg_a' = reg_a => Filled(r)'
         /\ Preparing(r)' \/ Accessing(r)' => Fine
<1>1. /\ reg_a = ZeroA /\ trace_id_prev = r.id /\ Quiet /\ Maps(r.page)
      /\ reg_a.vv = FALSE /\ reg_a.op # "FILL"
  BY DEF Filled, ZeroA
<1>2. Stale
  BY <1>1, ShownIsStale
<1>3. /\ Quiet' /\ trace_id_prev' = trace_id_prev
      /\ seen' = (~reg_b.clear /\ seen)
      /\ Maps(r.page) => Maps(r.page)'
      /\ Remembers(Unwritten(r))'
      /\ Preparing(r)' \/ Accessing(r)' => Fine
  BY <1>1, <1>2, QuietCycle
<1> QED BY <1>1, <1>3 DEF Filled

LEMMA AtSentinelStep ==
  ASSUME NEW r, Cycle(r), Remembers(Unwritten(r)), AtSentinel(r)
  PROVE  Fine
<1>1. r \in Routines /\ Steps /\ Program /\ Filled(r) /\ script = SetB(Sentinel) \o Rest6(r)
  BY DEF Cycle, AtSentinel, Rest5
<1>2. Sentinel \in RegsB /\ Rest6(r) \in Seq(Items)
  BY <1>1, WordTypes, RestTypes
<1>3. \/ Stands
      \/ reg_b' = Sentinel /\ reg_a' = reg_a /\ script' = Rest6(r) /\ UNCHANGED progVars
  BY <1>1, <1>2, AtSetB
<1>4. reg_a' = reg_a /\ reg_a' \in RegsA /\ reg_b' \in RegsB /\ UNCHANGED progVars
  BY <1>1, <1>2, <1>3, StandsKeeps DEF Stands, KeepsRegs, Steps, RegsOK
<1>5. Filled(r)' /\ Remembers(Unwritten(r))' /\ (Preparing(r)' => Fine)
  BY <1>1, <1>4, FilledCycle
<1>6. AtSentinel(r)' \/ AtClearWord(r)'
  BY <1>1, <1>3, <1>5 DEF AtSentinel, AtClearWord, Stands, Rest5
<1> QED BY <1>5, <1>6 DEF Preparing

LEMMA AtClearWordStep ==
  ASSUME NEW r, Cycle(r), Remembers(Unwritten(r)), AtClearWord(r)
  PROVE  Fine
<1>1. /\ r \in Routines /\ Steps /\ Program /\ Filled(r)
      /\ script = SetB(ZeroB) \o Rest7(r) /\ reg_b = Sentinel /\ reg_b.clear = TRUE
  BY DEF Cycle, AtClearWord, Rest6, Sentinel, ZeroB
<1>2. ZeroB \in RegsB /\ Rest7(r) \in Seq(Items)
  BY <1>1, WordTypes, RestTypes
<1>3. \/ Stands
      \/ reg_b' = ZeroB /\ reg_a' = reg_a /\ script' = Rest7(r) /\ UNCHANGED progVars
  BY <1>1, <1>2, AtSetB
<1>4. reg_a' = reg_a /\ reg_a' \in RegsA /\ reg_b' \in RegsB /\ UNCHANGED progVars
  BY <1>1, <1>2, <1>3, StandsKeeps DEF Stands, KeepsRegs, Steps, RegsOK
<1>5. /\ Filled(r)' /\ seen' = FALSE /\ Remembers(Unwritten(r))'
      /\ Preparing(r)' => Fine
  BY <1>1, <1>4, FilledCycle
<1>6. AtClearWord(r)' \/ AtWord(r)'
  BY <1>1, <1>3, <1>5 DEF AtClearWord, AtWord, Stands, KeepsRegs, Rest6
<1> QED BY <1>5, <1>6 DEF Preparing

LEMMA AtWordStep ==
  ASSUME NEW r, Cycle(r), Remembers(Unwritten(r)), AtWord(r)
  PROVE  Fine
<1>1. /\ r \in Routines /\ Steps /\ Program /\ Filled(r)
      /\ script = SetB(AccessWord(r)) \o Rest8(r) /\ reg_b = ZeroB /\ seen = FALSE
  BY DEF Cycle, AtWord, Rest7
<1>2. AccessWord(r) \in RegsB /\ Rest8(r) \in Seq(Items)
  BY <1>1, WordTypes, RestTypes
<1>3. \/ Stands
      \/ reg_b' = AccessWord(r) /\ reg_a' = reg_a /\ script' = Rest8(r) /\ UNCHANGED progVars
  BY <1>1, <1>2, AtSetB
<1>4. reg_a' = reg_a /\ reg_a' \in RegsA /\ reg_b' \in RegsB /\ UNCHANGED progVars
  BY <1>1, <1>2, <1>3, StandsKeeps DEF Stands, KeepsRegs, Steps, RegsOK
<1>5. /\ Filled(r)' /\ seen' = FALSE /\ Remembers(Unwritten(r))'
      /\ Preparing(r)' => Fine
  BY <1>1, <1>4, FilledCycle
<1>6. AtWord(r)' \/ AtLine(r)'
  <2>1. CASE Stands
    BY <1>1, <1>5, <2>1 DEF AtWord, Stands, KeepsRegs, Rest7
  <2>2. CASE reg_b' = AccessWord(r) /\ script' = Rest8(r)
    BY <1>5, <2>2 DEF AtLine, AccessWord
  <2> QED BY <1>3, <2>1, <2>2
<1> QED BY <1>5, <1>6 DEF Preparing

\* The time that the program leaves is enough, whatever it counts it with.
LEMMA BudgetIs ==
  ASSUME NEW l \in Nat \ {0}, NEW k \in Nat
  PROVE  /\ k + (l - 1) * (POLL_SLEEP + 1) \in Nat
         /\ k > 0 => (k - 1) + (l - 1) * (POLL_SLEEP + 1)
                       = (k + (l - 1) * (POLL_SLEEP + 1)) - 1
         /\ l # 1 /\ k = 0 =>
              POLL_SLEEP + ((l - 1) - 1) * (POLL_SLEEP + 1)
                = (l - 1) * (POLL_SLEEP + 1) - 1
<1>1. POLL_SLEEP \in Nat
  BY PaceAssumption
<1> DEFINE P == POLL_SLEEP + 1
<1>2. P \in Nat /\ POLL_SLEEP = P - 1
  BY <1>1
<1> HIDE DEF P
<1>3. (l - 1) * P \in Nat
  <2>1. l - 1 \in Nat
    OBVIOUS
  <2> QED BY <1>2, <2>1
<1>4. \A a \in Int : (a - 1) * P = a * P - P
  BY <1>2
<1>5. ((l - 1) - 1) * P = (l - 1) * P - P
  BY <1>4
<1>6. k + (l - 1) * P \in Nat /\ (k > 0 => (k - 1) + (l - 1) * P = (k + (l - 1) * P) - 1)
  <2>1. PICK z \in Nat : z = (l - 1) * P
    BY <1>3
  <2> QED BY <2>1
<1>7. (P - 1) + ((l - 1) - 1) * P = (l - 1) * P - 1
  <2>1. PICK z \in Nat : z = (l - 1) * P /\ ((l - 1) - 1) * P = z - P
    BY <1>3, <1>5
  <2> QED BY <1>2, <2>1
<1> QED BY <1>2, <1>6, <1>7 DEF P

LEMMA PollsAreEnough ==
  POLLS \in Nat \ {0} /\ POLL_SLEEP + (POLLS - 1) * (POLL_SLEEP + 1) >= LATENCY + 5
<1> DEFINE P == POLL_SLEEP + 1
<1>1. /\ P \in Nat /\ POLL_SLEEP = P - 1 /\ POLLS \in Nat /\ LATENCY \in Nat
      /\ POLLS * P >= LATENCY + 6
  BY PaceAssumption
<1> HIDE DEF P
<1>2. POLLS # 0
  BY <1>1
<1>3. (POLLS - 1) * P = POLLS * P - P
  BY <1>1
<1>4. POLLS * P \in Nat
  BY <1>1
<1>5. (P - 1) + (POLLS - 1) * P >= LATENCY + 5
  <2>1. PICK z \in Nat : z = POLLS * P /\ (POLLS - 1) * P = z - P
    BY <1>3, <1>4
  <2> QED BY <1>1, <2>1
<1> QED BY <1>1, <1>2, <1>5 DEF P

LEMMA AtLineStep ==
  ASSUME NEW r, Cycle(r), Remembers(Unwritten(r)), AtLine(r)
  PROVE  Fine
<1> DEFINE a == A(r.op, nid(r.id), r.page)
<1>1. /\ r \in Routines /\ Steps /\ Program /\ Filled(r)
      /\ script = SetA(a) \o Pause(r) /\ reg_b = AccessWord(r) /\ seen = FALSE
      /\ r.op \in {"LOAD", "STORE"} /\ r.id \in 1 .. MAX_ID
  BY DEF Cycle, AtLine, Rest8, Routines
<1>2. /\ a \in RegsA /\ a.id = nid(r.id) /\ a.id # r.id /\ Pause(r) \in Seq(Items)
  BY <1>1, WordTypes, RestTypes, NextId DEF A
<1> HIDE DEF a
<1>3. Stands \/ (reg_a' = a /\ reg_b' = reg_b /\ script' = Pause(r) /\ UNCHANGED progVars)
  BY <1>1, <1>2, AtSetA
<1>4. /\ reg_a' \in RegsA /\ reg_b' \in RegsB /\ UNCHANGED progVars /\ reg_b' = reg_b
      /\ reg_a' = reg_a \/ reg_a'.id # r.id
  BY <1>1, <1>2, <1>3, StandsKeeps DEF Stands, KeepsRegs, Steps, RegsOK
<1>5. /\ (Quiet /\ Maps(r.page) /\ trace_id_prev = r.id)' /\ seen' = FALSE
      /\ Remembers(Unwritten(r))'
      /\ reg_a' = reg_a => Filled(r)'
      /\ Preparing(r)' \/ Accessing(r)' => Fine
  BY <1>1, <1>4, FilledCycle
<1>6. CASE Stands
  <2>1. AtLine(r)'
    BY <1>1, <1>4, <1>5, <1>6 DEF AtLine, Stands, KeepsRegs, Rest8, a
  <2> QED BY <1>5, <2>1 DEF Preparing
<1>7. CASE reg_a' = a /\ script' = Pause(r)
  <2>1. ShowsAccess(r)'
    BY <1>1, <1>4, <1>7 DEF ShowsAccess, AccessWord, a
  <2>2. LATENCY \in Nat /\ STORE_SLEEP \in Nat /\ STORE_SLEEP >= LATENCY + 5
    BY PaceAssumption
  <2>3. CASE r.op = "STORE"
    <3>1. script' = usleep(STORE_SLEEP)
      BY <1>7, <2>3 DEF Pause
    <3>2. STORE_SLEEP + 1 >= LATENCY + 5 + Margin(r)
      BY <2>2, <2>3 DEF Margin
    <3>3. Within(r, STORE_SLEEP + 1)'
      BY <1>5, <2>2, <2>3, <3>2 DEF Within, Untaken
    <3>4. AtPause(r)'
      BY <2>2, <2>3, <3>1, <3>3 DEF AtPause
    <3> QED BY <1>5, <2>1, <3>4 DEF Accessing
  <2>4. CASE r.op = "LOAD"
    <3> DEFINE n == POLL_SLEEP + (POLLS - 1) * (POLL_SLEEP + 1)
    <3>1. script' = <<[do |-> "poll", left |-> POLLS, for |-> POLL_SLEEP]>>
      BY <1>7, <2>4 DEF Pause, PollStatus
    <3>2. POLLS \in Nat \ {0} /\ POLL_SLEEP \in Nat /\ n \in Nat /\ n >= LATENCY + 5
      BY PollsAreEnough, PaceAssumption, BudgetIs
    <3> HIDE DEF n
    <3>3. n >= LATENCY + 5 + Margin(r)
      BY <2>2, <2>4, <3>2 DEF Margin
    <3>4. Within(r, n)'
      BY <1>5, <2>4, <3>3 DEF Within, Untaken
    <3>5. AtPoll(r)'
      <4>1. n = POLL_SLEEP + (POLLS - 1) * (POLL_SLEEP + 1)
        BY DEF n
      <4> QED BY <2>4, <3>1, <3>2, <3>4, <4>1 DEF AtPoll
    <3> QED BY <1>5, <2>1, <3>5 DEF Accessing
  <2> QED BY <1>1, <2>3, <2>4
<1> QED BY <1>3, <1>6, <1>7

\* An access that is over stays so, and the queue empties.
LEMMA OverStep ==
  ASSUME Steps, NEW r \in Routines, ShowsAccess(r), expected' = expected, Over(r)
  PROVE  /\ BoardOK' /\ Quiet' /\ trace_id_prev' = nid(r.id) /\ Remembers(Vaddrs)'
         /\ cache_req' = None
<1>1. /\ reg_a.id = nid(r.id) /\ trace_id_prev = nid(r.id) /\ reg_b.clear = FALSE
      /\ Remembers(Vaddrs)
  BY DEF ShowsAccess, Over, A, AccessWord, ZeroB
<1>2. Stale
  BY <1>1, ShownIsStale
<1>3. /\ BoardOK' /\ Quiet' /\ trace_id_prev' = trace_id_prev /\ mem' = mem
      /\ cache_req' = None
  <2>1. CASE Retiring("LOAD")
    BY <1>1, <1>2, <2>1, LeaveStep
  <2>2. CASE Quiet
    BY <1>2, <2>2, QuietStep
  <2> QED BY <2>1, <2>2 DEF Over, Retiring
<1> QED BY <1>1, <1>3, RemembersStill

\* With no cycle left, it is over.
EndsInTime == \A r \in Routines : BoardOK /\ Within(r, 0) => Over(r)

LEMMA NoTimeLeft == EndsInTime
<1> SUFFICES ASSUME NEW r \in Routines, BoardOK, Within(r, 0)
             PROVE  Over(r)
  BY DEF EndsInTime
<1>1. LATENCY \in Nat /\ Margin(r) \in {0, 1}
  BY PaceAssumption DEF Margin
<1>2. ~Untaken(r, 0) /\ ~Asking(r, 0) /\ ~Looking(r, 0) /\ ~Writing(r, 0)
  BY <1>1 DEF Untaken, Asking, Looking, Writing
<1>3. ~InService(r, 0)
  BY <1>1 DEF InService, Serving, BoardOK, CachesOK
<1>4. ~Arriving(r, 0)
  BY DEF Arriving
<1> QED BY <1>2, <1>3, <1>4 DEF Within

\* Between routines.
LEMMA RoutineEnds ==
  ASSUME NEW r, Cycle(r), ShowsAccess(r), Over(r), KeepsRegs, script' = <<>>,
         checking' = None, g_id' = g_id, expected' = expected, verdict' \in {"none", "pass"}
  PROVE  Fine
<1>1. r \in Routines /\ Steps /\ r.id \in 1 .. MAX_ID /\ g_id = nid(nid(r.id))
  BY DEF Cycle, Goal, Routines
<1>2. /\ BoardOK' /\ Quiet' /\ trace_id_prev' = nid(r.id) /\ Remembers(Vaddrs)'
      /\ cache_req' = None
  BY <1>1, OverStep
<1>3. /\ reg_a' = reg_a /\ reg_a' \in RegsA /\ reg_b' \in RegsB /\ reg_a'.id = nid(r.id)
  BY <1>1, StandsKeeps DEF KeepsRegs, ShowsAccess, A
<1>4. Stale'
  <2>1. (reg_a.id = trace_id_prev => Stale)'
    BY ShownIsStale, PTL
  <2> QED BY <1>2, <1>3, <2>1
<1>5. nid(r.id) # nid(nid(r.id))
  BY <1>1, NextId
<1>6. Idling'
  BY <1>1, <1>2, <1>4, <1>5 DEF Idling
<1>7. ProgOK'
  BY DEF Cycle, ProgOK
<1>8. RequestIsTheLines /\ Noticed
  BY <1>2, <1>3, NothingShown
<1> QED BY <1>2, <1>3, <1>6, <1>7, <1>8 DEF Fine, PInv, RegsOK

LEMMA AtPauseStep ==
  ASSUME NEW r, Cycle(r), ShowsAccess(r), AtPause(r)
  PROVE  Fine
<1>1. /\ r \in Routines /\ Steps /\ Program /\ r.op = "STORE" /\ BoardOK
      /\ expected[r.page] = r.word /\ checking = None /\ verdict = "none"
  BY DEF Cycle, AtPause, Goal, Steps
<1>2. PICK n \in Nat : script = usleep(n) /\ Within(r, n + 1)
  BY DEF AtPause
<1>3. /\ KeepsRegs /\ UNCHANGED progVars
      /\ script' = script \/ (n > 0 /\ script' = usleep(n - 1)) \/ (n = 0 /\ script' = <<>>)
  BY <1>1, <1>2, AtOnlySleep
<1>4. /\ reg_a' = reg_a /\ reg_a' \in RegsA /\ reg_b' \in RegsB /\ ShowsAccess(r)'
      /\ expected' = expected
  BY <1>1, <1>3, StandsKeeps DEF KeepsRegs, ShowsAccess, progVars
<1>5. ASSUME NEW m \in Nat, n + 1 <= m + 1
      PROVE  BoardOK' /\ Within(r, m)' /\ RequestIsTheLines
  <2>1. n + 1 \in Nat
    OBVIOUS
  <2> QED BY <1>1, <1>2, <1>4, <1>5, <2>1, FlightStep
<1>6. Noticed
  BY <1>4 DEF Noticed
<1>7. CASE script' = script
  <2>1. n + 1 \in Nat /\ n + 1 <= (n + 1) + 1
    OBVIOUS
  <2>2. BoardOK' /\ Within(r, n + 1)' /\ RequestIsTheLines
    BY <1>5, <2>1
  <2>3. Accessing(r)'
    BY <1>1, <1>2, <1>4, <1>7, <2>2 DEF Accessing, AtPause
  <2> QED BY <1>3, <1>4, <1>6, <2>2, <2>3, GoesOn DEF Fine
<1>8. CASE n > 0 /\ script' = usleep(n - 1)
  <2>1. n - 1 \in Nat /\ (n - 1) + 1 = n /\ n + 1 <= n + 1
    BY <1>8
  <2>2. BoardOK' /\ Within(r, n)' /\ RequestIsTheLines
    BY <1>5
  <2>3. Accessing(r)'
    <3>1. Within(r, (n - 1) + 1)'
      BY <2>1, <2>2
    <3> QED BY <1>1, <1>4, <1>8, <2>1, <3>1 DEF Accessing, AtPause
  <2> QED BY <1>3, <1>4, <1>6, <2>2, <2>3, GoesOn DEF Fine
<1>9. CASE n = 0 /\ script' = <<>>
  <2>1. BoardOK' /\ Within(r, 0)' /\ RequestIsTheLines
    BY <1>5, <1>9
  <2>2. Over(r)'
    <3>1. EndsInTime'
      BY NoTimeLeft, PTL
    <3> QED BY <1>1, <2>1, <3>1 DEF EndsInTime
  <2>3. Quiet' /\ trace_id_prev' = nid(r.id) /\ Remembers(Vaddrs)'
    BY <1>1, <2>2 DEF Over, Retiring
  <2>4. Stale'
    <3>1. (reg_a.id = trace_id_prev => Stale)'
      BY ShownIsStale, PTL
    <3> QED BY <1>4, <2>3, <3>1 DEF ShowsAccess, A
  <2>5. r.id \in 1 .. MAX_ID /\ g_id' = nid(nid(r.id)) /\ nid(r.id) # nid(nid(r.id))
    BY <1>1, <1>3, NextId DEF Cycle, Goal, Routines, progVars
  <2>6. Idling'
    BY <1>1, <1>3, <1>9, <2>3, <2>4, <2>5 DEF Idling, progVars
  <2>7. ProgOK'
    BY <1>3 DEF Cycle, ProgOK, progVars
  <2> QED BY <1>4, <1>6, <2>1, <2>6, <2>7 DEF Fine, PInv, RegsOK
<1> QED BY <1>3, <1>7, <1>8, <1>9

LEMMA AtPollStep ==
  ASSUME NEW r, Cycle(r), ShowsAccess(r), AtPoll(r)
  PROVE  Fine
<1>1. /\ r \in Routines /\ Steps /\ Program /\ r.op = "LOAD" /\ BoardOK /\ r.page \in Vaddrs
      /\ checking = r.page /\ expected[r.page] # None /\ verdict = "none"
  BY DEF Cycle, AtPoll, Goal, Steps, Routines
<1>2. PICK l \in Nat \ {0}, k \in Nat :
        /\ script = <<[do |-> "poll", left |-> l, for |-> k]>>
        /\ Within(r, k + (l - 1) * (POLL_SLEEP + 1))
  BY DEF AtPoll
<1> DEFINE n == k + (l - 1) * (POLL_SLEEP + 1)
<1>3. n \in Nat /\ Within(r, n)
  BY <1>2, BudgetIs
<1>4. /\ KeepsRegs
      /\ \/ script' = script /\ UNCHANGED progVars
         \/ /\ k > 0 /\ script' = <<[do |-> "poll", left |-> l, for |-> k - 1]>>
            /\ UNCHANGED progVars
         \/ /\ k = 0 /\ ~seen /\ l # 1 /\ UNCHANGED progVars
            /\ script' = <<[do |-> "poll", left |-> l - 1, for |-> POLL_SLEEP]>>
         \/ /\ k = 0 /\ (seen \/ l = 1) /\ script' = <<>>
            /\ checking' = None /\ g_id' = g_id /\ expected' = expected
            /\ verdict' = IF ~seen THEN "timeout"
                          ELSE IF ret_data = expected[checking] THEN "pass" ELSE "fail"
  BY <1>1, <1>2, AtOnlyPoll
<1>5. /\ reg_a' = reg_a /\ reg_a' \in RegsA /\ reg_b' \in RegsB /\ ShowsAccess(r)'
      /\ expected' = expected
  BY <1>1, <1>4, StandsKeeps DEF KeepsRegs, ShowsAccess, progVars
<1>6. Noticed
  BY <1>5 DEF Noticed
<1>7. ASSUME NEW l2 \in Nat \ {0}, NEW k2 \in Nat, UNCHANGED progVars,
             script' = <<[do |-> "poll", left |-> l2, for |-> k2]>>,
             n <= k2 + (l2 - 1) * (POLL_SLEEP + 1) + 1
      PROVE  Fine
  <2> DEFINE m == k2 + (l2 - 1) * (POLL_SLEEP + 1)
  <2>1. m \in Nat
    BY BudgetIs
  <2>2. n <= m + 1
    BY <1>7
  <2> HIDE DEF n
  <2>3. BoardOK' /\ Within(r, m)' /\ RequestIsTheLines
    <3> HIDE DEF m
    <3> QED BY <1>1, <1>3, <1>5, <2>1, <2>2, FlightStep
  <2>4. Accessing(r)'
    BY <1>1, <1>5, <1>7, <2>3 DEF Accessing, AtPoll
  <2> QED BY <1>5, <1>6, <1>7, <2>3, <2>4, GoesOn DEF Fine
<1>8. CASE script' = script /\ UNCHANGED progVars
  <2>1. n <= n + 1
    BY <1>3
  <2> QED BY <1>2, <1>7, <1>8, <2>1
<1>9. CASE /\ k > 0 /\ script' = <<[do |-> "poll", left |-> l, for |-> k - 1]>>
           /\ UNCHANGED progVars
  <2>1. (k - 1) + (l - 1) * (POLL_SLEEP + 1) = n - 1
    BY <1>9, BudgetIs
  <2>3. k - 1 \in Nat
    BY <1>9
  <2>2. n <= (k - 1) + (l - 1) * (POLL_SLEEP + 1) + 1
    <3> HIDE DEF n
    <3> QED BY <1>3, <2>1
  <2> QED BY <1>7, <1>9, <2>3, <2>2
<1>10. CASE /\ k = 0 /\ ~seen /\ l # 1 /\ UNCHANGED progVars
            /\ script' = <<[do |-> "poll", left |-> l - 1, for |-> POLL_SLEEP]>>
  <2>1. /\ l - 1 \in Nat \ {0} /\ POLL_SLEEP \in Nat
        /\ POLL_SLEEP + ((l - 1) - 1) * (POLL_SLEEP + 1) = (l - 1) * (POLL_SLEEP + 1) - 1
    BY <1>10, BudgetIs, PaceAssumption
  <2>2. n = (l - 1) * (POLL_SLEEP + 1)
    <3>1. n = 0 + (l - 1) * (POLL_SLEEP + 1) /\ (l - 1) * (POLL_SLEEP + 1) \in Int
      BY <1>10, <2>1
    <3> QED BY <3>1
  <2>3. n <= POLL_SLEEP + ((l - 1) - 1) * (POLL_SLEEP + 1) + 1
    <3> HIDE DEF n
    <3>1. POLL_SLEEP + ((l - 1) - 1) * (POLL_SLEEP + 1) = n - 1
      BY <2>1, <2>2
    <3> QED BY <1>3, <3>1
  <2> QED BY <1>7, <1>10, <2>1, <2>3
<1>11. CASE /\ k = 0 /\ (seen \/ l = 1) /\ script' = <<>>
            /\ checking' = None /\ g_id' = g_id /\ expected' = expected
            /\ verdict' = IF ~seen THEN "timeout"
                          ELSE IF ret_data = expected[checking] THEN "pass" ELSE "fail"
  <2>1. Over(r)
    <3>1. CASE seen
      BY <1>1, <1>2, <3>1 DEF Within
    <3>2. CASE l = 1
      <4>1. n = 0
        BY <1>11, <3>2, PaceAssumption
      <4> QED BY <1>1, <1>3, <4>1, NoTimeLeft DEF EndsInTime
    <3> QED BY <1>11, <3>1, <3>2
  <2>2. seen = TRUE /\ ret_data = mem[r.page][0] /\ mem[r.page][0] = expected[r.page]
    BY <1>1, <2>1 DEF Over, Remembers
  <2>3. verdict' = "pass"
    BY <1>1, <1>11, <2>2
  <2> QED BY <1>4, <1>11, <2>1, <2>3, RoutineEnds
<1> QED BY <1>4, <1>8, <1>9, <1>10, <1>11

\* The scripts that the routines put together are those of the positions.
LEMMA RoutineScript ==
  ASSUME NEW r \in Routines
  PROVE  (fill_script(r.id, r.page) \o usleep(FILL_SLEEP)) \o clear_status_script
           \o (SetB(AccessWord(r)) \o SetA(A(r.op, nid(r.id), r.page))) \o Pause(r)
         = Rest1(r)
<1> DEFINE Q == Seq(Items)
           a == SetB(FillWord(r))
           b == SetA(A("FILL", r.id, r.page))
           c == usleep(FILL_SLEEP)
           d == SetA(ZeroA)
           e == SetB(Sentinel)
           f == SetB(ZeroB)
           g == SetB(AccessWord(r))
           h == SetA(A(r.op, nid(r.id), r.page))
           i == Pause(r)
<1>1. /\ a \in Q /\ b \in Q /\ c \in Q /\ d \in Q /\ e \in Q /\ f \in Q /\ g \in Q /\ h \in Q
      /\ i \in Q
  <2>1. /\ \A x \in RegsA : SetA(x) \in Q
        /\ \A x \in RegsB : SetB(x) \in Q
        /\ \A n \in Nat : usleep(n) \in Q
    BY ItemTypes
  <2>2. FILL_SLEEP \in Nat /\ i \in Q
    BY PaceAssumption, RestTypes
  <2> HIDE DEF Q
  <2> QED BY <2>1, <2>2, WordTypes
<1>2. Rest1(r) = a \o (b \o (c \o (d \o (e \o (f \o (g \o (h \o i)))))))
  BY DEF Rest1, Rest2, Rest3, Rest4, Rest5, Rest6, Rest7, Rest8
<1>3. /\ fill_script(r.id, r.page) = a \o b
      /\ clear_status_script = (d \o e) \o f
  BY DEF fill_script, send_trace, FillWord, clear_status_script
<1>4. \A s, t \in Q : Then(s, t) \in Q
  BY ThenIsAssociative
<1>5. \A s, t, u \in Q : Then(Then(s, t), u) = Then(s, Then(t, u))
  BY ThenIsAssociative
<1> DEFINE X == Then(Then(a, b), c)
           Y == Then(Then(d, e), f)
           Z == Then(g, h)
<1> HIDE DEF Q, a, b, c, d, e, f, g, h, i
<1>6. ASSUME NEW s \in Q, NEW t \in Q, NEW u \in Q, NEW v \in Q
      PROVE  Then(Then(Then(s, t), u), v) = Then(s, Then(t, Then(u, v)))
  <2>1. Then(Then(Then(s, t), u), v) = Then(Then(s, t), Then(u, v))
    BY <1>4, <1>5
  <2> QED BY <2>1, <1>4, <1>5
<1>7. /\ X \in Q /\ Y \in Q /\ Z \in Q /\ Then(h, i) \in Q
      /\ Then(Z, i) = Then(g, Then(h, i))
  <2>1. Then(a, b) \in Q /\ Then(d, e) \in Q /\ Then(g, h) \in Q /\ Then(h, i) \in Q
    BY <1>1, <1>4
  <2>2. X \in Q /\ Y \in Q
    BY <1>1, <1>4, <2>1
  <2> QED BY <1>1, <1>5, <2>1, <2>2
<1>8. \A s \in Q : /\ Then(X, s) = Then(a, Then(b, Then(c, s)))
                  /\ Then(Y, s) = Then(d, Then(e, Then(f, s)))
  BY <1>1, <1>6
<1> HIDE DEF X, Y, Z
<1>9. Then(Z, i) \in Q /\ Then(Y, Then(Z, i)) \in Q
  BY <1>1, <1>4, <1>7
<1>10. Then(Then(Then(X, Y), Z), i) = Then(X, Then(Y, Then(Z, i)))
  BY <1>1, <1>6, <1>7
<1>11. Then(Then(Then(X, Y), Z), i)
         = Then(a, Then(b, Then(c, Then(d, Then(e, Then(f, Then(g, Then(h, i))))))))
  BY <1>7, <1>8, <1>9, <1>10
<1>12. Then(Then(Then(X, Y), Z), i) = Rest1(r)
  BY <1>2, <1>11 DEF Then
<1> QED BY <1>3, <1>12 DEF X, Y, Z, Then, c, g, h, i

LEMMA MainScript == nop_script \o usleep(FILL_SLEEP) = NopWord
<1> DEFINE x == SetB(ZeroB)
           y == SetA(Nop)
           z == usleep(FILL_SLEEP)
<1>1. x \in Seq(Items) /\ y \in Seq(Items) /\ z \in Seq(Items)
  BY ItemTypes, WordTypes, PaceAssumption
<1>2. nop_script = x \o y /\ NopWord = x \o (y \o z)
  BY DEF nop_script, send_trace, NopWord, NopLine, Nop
<1> HIDE DEF x, y, z
<1>3. Then(Then(x, y), z) = Then(x, Then(y, z))
  BY <1>1, ThenIsAssociative
<1> QED BY <1>2, <1>3 DEF Then, z

LEMMA StoreScript ==
  ASSUME g_id \in 1 .. MAX_ID, NEW p \in Vaddrs, NEW w \in Values, do_store(p, w)
  PROVE  \E r \in Routines :
           /\ r = [op |-> "STORE", id |-> g_id, page |-> p, word |-> w]
           /\ script' = Rest1(r)
<1> DEFINE r0 == [op |-> "STORE", id |-> g_id, page |-> p, word |-> w]
<1>1. PICK r : r = r0
  OBVIOUS
<1>2. r \in Routines /\ r.op = "STORE" /\ r.id = g_id /\ r.page = p /\ r.word = w
  BY <1>1 DEF Routines
<1> HIDE DEF r0
<1>3. /\ fill_page(p) = fill_script(r.id, r.page) \o usleep(FILL_SLEEP)
      /\ store_script(nid(g_id), p, w) = SetB(AccessWord(r)) \o SetA(A(r.op, nid(r.id), r.page))
      /\ StorePause = Pause(r)
  BY <1>2 DEF fill_page, store_script, send_trace, AccessWord, StorePause, Pause
<1>4. script' = fill_page(p) \o clear_status_script
                  \o store_script(nid(g_id), p, w) \o StorePause
  BY DEF do_store
<1>5. script' = Rest1(r)
  BY <1>2, <1>3, <1>4, RoutineScript
<1> QED BY <1>1, <1>2, <1>5 DEF r0

LEMMA LoadScript ==
  ASSUME g_id \in 1 .. MAX_ID, NEW p \in Vaddrs, do_load(p)
  PROVE  \E r \in Routines :
           /\ r = [op |-> "LOAD", id |-> g_id, page |-> p, word |-> ZeroValue]
           /\ script' = Rest1(r)
<1> DEFINE r0 == [op |-> "LOAD", id |-> g_id, page |-> p, word |-> ZeroValue]
<1>1. PICK r : r = r0
  OBVIOUS
<1>2. r \in Routines /\ r.op = "LOAD" /\ r.id = g_id /\ r.page = p
  BY <1>1, ZeroAssumption DEF Routines
<1> HIDE DEF r0
<1>3. /\ fill_page(p) = fill_script(r.id, r.page) \o usleep(FILL_SLEEP)
      /\ load_script(nid(g_id), p) = SetB(AccessWord(r)) \o SetA(A(r.op, nid(r.id), r.page))
      /\ PollStatus(POLLS) = Pause(r)
  BY <1>2 DEF fill_page, load_script, send_trace, AccessWord, Pause
<1>4. script' = fill_page(p) \o clear_status_script
                  \o load_script(nid(g_id), p) \o PollStatus(POLLS)
  BY DEF do_load
<1>5. script' = Rest1(r)
  BY <1>2, <1>3, <1>4, RoutineScript
<1> QED BY <1>1, <1>2, <1>5 DEF r0

LEMMA IdlingStep ==
  ASSUME Steps, Program, ProgOK, Idling
  PROVE  Fine
<1>1. /\ Quiet /\ Stale /\ trace_id_prev # g_id /\ checking = None /\ Remembers(Vaddrs)
      /\ g_id \in 1 .. MAX_ID
  BY DEF Idling, ProgOK
<1>2. /\ BoardOK' /\ Quiet' /\ trace_id_prev' = trace_id_prev /\ mem' = mem
      /\ cache_req' = None
  BY <1>1, QuietStep
<1>3. expected' = expected => Remembers(Vaddrs)'
  BY <1>1, <1>2, RemembersStill
<1>4. reg_a' = reg_a => Stale'
  BY <1>1, <1>2, StaleStill
<1>5. KeepsRegs => /\ RegsOK' /\ RequestIsTheLines /\ Noticed
  <2> SUFFICES ASSUME KeepsRegs
               PROVE  RegsOK' /\ RequestIsTheLines /\ Noticed
    OBVIOUS
  <2>1. reg_a' = reg_a
    BY DEF KeepsRegs
  <2> QED BY <1>2, <2>1, StandsKeeps, NothingShown DEF RegsOK
\* It stays between routines, or goes on with the NOP.
<1>6. ASSUME KeepsRegs, g_id' = g_id, expected' = expected, checking' = None,
             verdict' \in {"start", "none", "pass"},
             \/ script' = <<>> \/ script' = NopWord \/ script' = NopLine
             \/ \E n \in Nat : script' = usleep(n)
      PROVE  Fine
  <2>1. Idling'
    BY <1>1, <1>2, <1>3, <1>4, <1>6 DEF Idling, KeepsRegs
  <2>2. ProgOK'
    BY <1>6 DEF ProgOK
  <2> QED BY <1>2, <1>5, <1>6, <2>1, <2>2 DEF Fine, PInv
<1>7. ASSUME Stands
      PROVE  Fine
  <2>1. KeepsRegs /\ g_id' = g_id /\ expected' = expected /\ checking' = None
        /\ verdict' \in {"start", "none", "pass"} /\ script' = script
    BY <1>1, <1>7 DEF Stands, progVars, ProgOK
  <2> QED BY <1>6, <2>1 DEF Idling
\* A routine begins.
<1>8. ASSUME NEW r \in Routines, r.id = g_id, KeepsRegs, script' = Rest1(r), Goal(r)', ProgOK',
             Remembers(Unwritten(r))'
      PROVE  Fine
  <2>1. Stale'
    BY <1>4, <1>8 DEF KeepsRegs
  <2>2. AtFillWord(r)'
    BY <1>1, <1>2, <1>8, <2>1 DEF AtFillWord
  <2> QED BY <1>2, <1>5, <1>8, <2>2 DEF Fine, PInv, Preparing
<1>9. CASE script = <<>>
  <2>1. Done
    BY <1>9 DEF Done
  <2>2. CASE main
    <3>1. KeepsRegs /\ g_id' = g_id /\ expected' = expected /\ checking' = None
          /\ verdict' = "none" /\ script' = NopWord
      BY <1>1, <2>2, MainScript DEF main, KeepsRegs
    <3> QED BY <1>6, <3>1
  <2>3. CASE Runs
    BY <1>7, <2>1, <2>3
       DEF Runs, WriteReg, Sleep, Wake, Poll, HpsWaits, Stands, KeepsRegs, progVars
  <2>4. ~check
    BY <2>1 DEF check, Poll
  <2>5. ASSUME NEW p \in Vaddrs, do_load(p)
        PROVE  Fine
    <3>1. PICK r \in Routines :
            /\ r = [op |-> "LOAD", id |-> g_id, page |-> p, word |-> ZeroValue]
            /\ script' = Rest1(r)
      BY <1>1, <2>5, LoadScript
    <3>2. r.op = "LOAD" /\ r.id = g_id /\ r.page = p
      BY <3>1
    <3>3. /\ KeepsRegs /\ g_id' = nid(nid(g_id)) /\ checking' = p /\ verdict' = "none"
          /\ expected' = expected /\ expected[p] # None
      BY <2>5 DEF do_load, KeepsRegs
    <3>4. Goal(r)'
      BY <3>2, <3>3 DEF Goal
    <3>5. ProgOK'
      BY <1>1, <3>3, NextId DEF ProgOK
    <3>6. Remembers(Unwritten(r))'
      BY <1>3, <3>2, <3>3 DEF Unwritten
    <3> QED BY <1>8, <3>1, <3>2, <3>3, <3>4, <3>5, <3>6
  <2>6. ASSUME NEW p \in Vaddrs, NEW w \in Values, do_store(p, w)
        PROVE  Fine
    <3>1. PICK r \in Routines :
            /\ r = [op |-> "STORE", id |-> g_id, page |-> p, word |-> w]
            /\ script' = Rest1(r)
      BY <1>1, <2>6, StoreScript
    <3>2. r.op = "STORE" /\ r.id = g_id /\ r.page = p /\ r.word = w
      BY <3>1
    <3>3. /\ KeepsRegs /\ g_id' = nid(nid(g_id)) /\ checking' = None /\ verdict' = "none"
          /\ expected' = [expected EXCEPT ![p] = w]
      BY <1>1, <2>6 DEF do_store, KeepsRegs
    <3>4. expected'[p] = w /\ (\A q \in Vaddrs \ {p} : expected'[q] = expected[q])
      BY <3>3 DEF ProgOK
    <3>5. Goal(r)'
      BY <3>2, <3>3, <3>4 DEF Goal
    <3>6. ProgOK'
      BY <1>1, <3>3, NextId DEF ProgOK
    <3>7. Remembers(Unwritten(r))'
      BY <1>1, <1>2, <3>2, <3>4 DEF Remembers, Unwritten
    <3> QED BY <1>8, <3>1, <3>2, <3>3, <3>5, <3>6, <3>7
  <2> QED BY <2>2, <2>3, <2>4, <2>5, <2>6 DEF Program
<1>10. CASE script = NopWord
  <2>1. Stands \/ (reg_b' = ZeroB /\ reg_a' = reg_a /\ script' = NopLine /\ UNCHANGED progVars)
    BY <1>10, AtSetB, WordTypes, NopTypes DEF NopWord
  <2>2. CASE reg_b' = ZeroB /\ reg_a' = reg_a /\ script' = NopLine /\ UNCHANGED progVars
    <3>1. Idling'
      BY <1>1, <1>2, <1>3, <1>4, <2>2 DEF Idling, progVars
    <3>2. ProgOK' /\ RegsOK'
      BY <2>2, WordTypes DEF ProgOK, progVars, RegsOK, Steps
    <3>3. RequestIsTheLines /\ Noticed
      BY <1>2, <2>2, NothingShown
    <3> QED BY <1>2, <3>1, <3>2, <3>3 DEF Fine, PInv
  <2> QED BY <1>7, <2>1, <2>2
<1>11. CASE script = NopLine
  <2>1. /\ Nop \in RegsA /\ Nop.vv = FALSE /\ Nop.op # "FILL" /\ FILL_SLEEP \in Nat
        /\ usleep(FILL_SLEEP) \in Seq(Items)
    BY WordTypes, ItemTypes, PaceAssumption DEF Nop, ZeroA
  <2>2. \/ Stands
        \/ /\ reg_a' = Nop /\ reg_b' = reg_b /\ script' = usleep(FILL_SLEEP)
           /\ UNCHANGED progVars
    BY <1>11, <2>1, AtSetA DEF NopLine
  <2>3. CASE /\ reg_a' = Nop /\ reg_b' = reg_b /\ script' = usleep(FILL_SLEEP)
             /\ UNCHANGED progVars
    <3>1. Stale'
      <4>1. (reg_a.id = trace_id_prev \/ (reg_a.vv = FALSE /\ reg_a.op # "FILL") => Stale)'
        BY ShownIsStale, PTL
      <4> QED BY <2>1, <2>3, <4>1
    <3>2. Idling'
      BY <1>1, <1>2, <1>3, <2>1, <2>3, <3>1 DEF Idling, progVars
    <3>3. ProgOK' /\ RegsOK'
      BY <2>1, <2>3 DEF ProgOK, progVars, RegsOK, Steps
    <3>4. RequestIsTheLines /\ Noticed
      BY <1>2, <2>1, <2>3, NothingShown
    <3> QED BY <1>2, <3>2, <3>3, <3>4 DEF Fine, PInv
  <2> QED BY <1>7, <2>2, <2>3
<1>12. ASSUME NEW n \in Nat, script = usleep(n)
       PROVE  Fine
  <2>1. /\ KeepsRegs /\ UNCHANGED progVars
        /\ script' = script \/ (n > 0 /\ script' = usleep(n - 1)) \/ (n = 0 /\ script' = <<>>)
    BY <1>12, AtOnlySleep
  <2>2. script' = <<>> \/ \E k \in Nat : script' = usleep(k)
    <3>1. n > 0 => n - 1 \in Nat
      OBVIOUS
    <3> QED BY <1>12, <2>1, <3>1
  <2>3. g_id' = g_id /\ expected' = expected /\ checking' = None
        /\ verdict' \in {"start", "none", "pass"}
    BY <1>1, <2>1 DEF progVars, ProgOK
  <2> QED BY <1>6, <2>1, <2>2, <2>3
<1> QED BY <1>9, <1>10, <1>11, <1>12 DEF Idling

\* Every step of the program with the hardware.
LEMMA StressStep ==
  ASSUME PInv, Next
  PROVE  Fine
<1>1. Steps /\ Program /\ ProgOK
  BY DEF PInv, Next, Steps, Program
<1>2. CASE Idling
  BY <1>1, <1>2, IdlingStep
<1>3. ASSUME NEW r \in Routines, Goal(r), Preparing(r) \/ Accessing(r)
      PROVE  Fine
  <2>1. Cycle(r)
    BY <1>1, <1>3 DEF Cycle
  <2>2. CASE Preparing(r)
    BY <2>1, <2>2, AtFillWordStep, AtFillLineStep, AtFillSleepStep, AtClearStep, AtSentinelStep,
       AtClearWordStep, AtWordStep, AtLineStep DEF Preparing
  <2>3. CASE Accessing(r)
    BY <2>1, <2>3, AtPauseStep, AtPollStep DEF Accessing
  <2> QED BY <1>3, <2>2, <2>3
<1> QED BY <1>2, <1>3 DEF PInv

-----------------------------------------------------------------------------
(* The invariant holds, and what follows from it.                          *)

LEMMA InitPInv == Init => PInv
<1> SUFFICES ASSUME Init
             PROVE  PInv
  OBVIOUS
<1>1. /\ LsqInit /\ TLB!Init /\ reg_a = ZeroA /\ reg_b = ZeroB
      /\ seen = FALSE /\ ret_data = ZeroValue /\ script = <<>>
  BY DEF Init, PacedInit, HpsInit, BoardInit
<1>2. /\ Caches!WMInit /\ mem = [p \in Vaddrs |-> [o \in {0} |-> ZeroValue]]
      /\ age = 0 /\ lost = FALSE
      /\ g_id = 1 /\ expected = [p \in Vaddrs |-> None]
      /\ checking = None /\ verdict = "start"
  BY DEF Init, PacedInit
<1>3. TypeOK
  BY <1>1, InitType
<1>4. TlbOK
  BY <1>1, ZeroAssumption DEF TLB!Init, TlbOK
<1>5. CachesOK
  BY <1>2, ZeroAssumption DEF Caches!WMInit, CachesOK
<1>6. BoardOK /\ RegsOK
  BY <1>1, <1>3, <1>4, <1>5, ZeroAssumption, WordTypes DEF BoardOK, RegsOK
<1>7. ProgOK
  BY <1>2, IdAssumption DEF ProgOK
<1>8. Quiet
  <2>1. NoLoads /\ NoStores
    BY <1>1 DEF LsqInit, NoLoads, NoStores, EmptyQueue, Blank
  <2>2. cur = None /\ rvalid = FALSE
    BY <1>2 DEF Caches!WMInit, NoReq
  <2> QED BY <1>1, <2>1, <2>2 DEF Quiet, Calm, CachesIdle, LsqInit, TLB!Init
<1>9. Stale
  BY <1>1, ShownIsStale DEF ZeroA
<1>10. trace_id_prev # g_id
  BY <1>1, <1>2, IdAssumption DEF LsqInit
<1>11. Remembers(Vaddrs)
  BY <1>2 DEF Remembers
<1> QED BY <1>1, <1>2, <1>6, <1>7, <1>8, <1>9, <1>10, <1>11 DEF PInv, Idling

LEMMA Stutter ==
  ASSUME PInv, UNCHANGED vars
  PROVE  PInv'
<1>1. /\ UNCHANGED lsqVars /\ UNCHANGED tlbVars /\ UNCHANGED progVars
      /\ reg_a' = reg_a /\ reg_b' = reg_b /\ seen' = seen /\ ret_data' = ret_data
      /\ script' = script
      /\ UNCHANGED <<mem, cur, rvalid, rload, rdata, age, lost>>
  BY DEF vars, pacedVars, hpsVars, boardVars, progVars
<1>2. BoardOK' /\ RegsOK' /\ ProgOK'
  BY <1>1 DEF PInv, BoardOK, RegsOK, ProgOK, TypeOK, TlbOK, CachesOK, lsqVars, tlbVars, progVars
<1>3. (NoLoads' <=> NoLoads) /\ (NoStores' <=> NoStores)
      /\ (OneLoad' <=> OneLoad) /\ (OneStore' <=> OneStore)
  BY <1>1 DEF lsqVars, NoLoads, NoStores, OneLoad, OneStore, EmptyQueue, OneEntry
<1>4. (Quiet' <=> Quiet) /\ (Calm' <=> Calm) /\ (CachesIdle' <=> CachesIdle)
  BY <1>1, <1>3 DEF lsqVars, tlbVars, Quiet, Calm, CachesIdle
<1>5. \A p : Maps(p)' <=> Maps(p)
  BY <1>1 DEF tlbVars, Maps
<1>6. \A S : Remembers(S)' <=> Remembers(S)
  BY <1>1 DEF progVars, Remembers
<1>7. Stale' <=> Stale
  BY <1>1 DEF lsqVars, Stale, IsNew, trace_line
<1>8. CASE Idling
  BY <1>1, <1>2, <1>4, <1>6, <1>7, <1>8 DEF Idling, progVars, lsqVars, PInv
<1>9. ASSUME NEW r \in Routines, Goal(r), Preparing(r)
      PROVE  PInv'
  <2>1. Goal(r)'
    BY <1>1, <1>9 DEF Goal, progVars
  <2>2. FillTaken(r)' <=> FillTaken(r)
    BY <1>1, <1>4, <1>5 DEF FillTaken, Filling, lsqVars, tlbVars
  <2>3. (Filled(r)' <=> Filled(r)) /\ (ShowsFill(r)' <=> ShowsFill(r))
    BY <1>1, <1>4, <1>5 DEF Filled, ShowsFill, lsqVars
  <2>4. Preparing(r)'
    BY <1>1, <1>4, <1>6, <1>7, <1>9, <2>2, <2>3
       DEF Preparing, AtFillWord, AtFillLine, AtFillSleep, AtClear, AtSentinel, AtClearWord,
           AtWord, AtLine, lsqVars, Unwritten, Remembers
  <2> QED BY <1>2, <2>1, <2>4 DEF PInv
<1>10. ASSUME NEW r \in Routines, Goal(r), Accessing(r)
       PROVE  PInv'
  <2>1. Goal(r)'
    BY <1>1, <1>10 DEF Goal, progVars
  <2>2. \A op, w : Awaits(op, w)' <=> Awaits(op, w)
    BY <1>1, <1>3 DEF Awaits, LoadAwaits, StoreAwaits, lsqVars
  <2>3. \A p, w : StoreReady(p, w)' <=> StoreReady(p, w)
    BY <1>1, <1>3 DEF StoreReady, lsqVars
  <2>4. (LoadReading' <=> LoadReading) /\ (LoadReturned' <=> LoadReturned)
    BY <1>1, <1>3 DEF LoadReading, LoadReturned, LoadTaken, lsqVars
  <2>5. \A op, p, w : /\ Asked(op, p, w)' <=> Asked(op, p, w)
                      /\ Looked(op, p, w)' <=> Looked(op, p, w)
                      /\ Ready(op, p, w)' <=> Ready(op, p, w)
    BY <1>1, <1>4, <1>5, <2>2, <2>3 DEF Asked, Looked, Ready, lsqVars, tlbVars
  <2>6. \A op, p, w : InCaches(op, p, w)' <=> InCaches(op, p, w)
    BY <1>1, <1>4, <2>4 DEF InCaches, lsqVars, tlbVars
  <2>7. \A op, p, w : /\ Serving(op, p, w)' <=> Serving(op, p, w)
                      /\ Answering(op, p, w)' <=> Answering(op, p, w)
                      /\ Retiring(op)' <=> Retiring(op)
    BY <1>1, <1>4, <2>4, <2>6 DEF Serving, Answering, Retiring, tlbVars
  <2>8. \A n : /\ Untaken(r, n)' <=> Untaken(r, n)
               /\ Asking(r, n)' <=> Asking(r, n)
               /\ Looking(r, n)' <=> Looking(r, n)
               /\ Writing(r, n)' <=> Writing(r, n)
    BY <1>1, <1>4, <1>5, <2>5 DEF Untaken, Asking, Looking, Writing, lsqVars
  <2>9. \A n : /\ InService(r, n)' <=> InService(r, n)
               /\ Arriving(r, n)' <=> Arriving(r, n)
    BY <1>1, <2>7 DEF InService, Arriving, lsqVars
  <2>10. Over(r)' <=> Over(r)
    BY <1>1, <1>4, <1>6, <2>7 DEF Over, lsqVars
  <2>11. \A n : Within(r, n)' <=> Within(r, n)
    BY <1>1, <1>6, <2>8, <2>9, <2>10 DEF Within, Unwritten
  <2>12. Accessing(r)'
    BY <1>1, <1>10, <2>11 DEF Accessing, ShowsAccess, AtPause, AtPoll
  <2> QED BY <1>2, <2>1, <2>12 DEF PInv
<1> QED BY <1>8, <1>9, <1>10 DEF PInv

LEMMA EdgeHappens ==
  ASSUME PInv, HardwareEdge, QueuesAreContiguous
  PROVE  QueuesAreContiguous'
<1>1. PICK word \in Values : Edge(trace_line, lookup_hit_o, lookup_paddr_o, rvalid, word)
  BY HardwareEdgeIs DEF PInv
<1> QED BY <1>1, EdgeContiguous DEF PInv, BoardOK

LEMMA Invariance == Spec => [](PInv /\ QueuesAreContiguous)
<1>1. Init => PInv /\ QueuesAreContiguous
  BY InitPInv, InitContiguous DEF Init, PacedInit, HpsInit, BoardInit
<1>2. PInv /\ QueuesAreContiguous /\ [Next]_vars => (PInv /\ QueuesAreContiguous)'
  <2> SUFFICES ASSUME PInv, QueuesAreContiguous, [Next]_vars
               PROVE  PInv' /\ QueuesAreContiguous'
    OBVIOUS
  <2>1. CASE Next
    BY <2>1, StressStep, EdgeHappens DEF Fine, Next
  <2>2. CASE UNCHANGED vars
    <3>1. QueuesAreContiguous'
      BY <2>2 DEF vars, pacedVars, hpsVars, boardVars, lsqVars, QueuesAreContiguous
    <3> QED BY <2>2, <3>1, Stutter
  <2> QED BY <2>1, <2>2
<1> QED BY <1>1, <1>2, PTL DEF Spec

\* Nothing that the stress test does overruns a queue.
THEOREM StressQueuesAreContiguous == Spec => []QueuesAreContiguous
  BY Invariance, PTL

\* The queue never puts a request on L1's port while one is unanswered, whatever
\* the sizes, the latency and the pauses: L1 is used as it can be.
THEOREM StressWaits == Spec => []RequesterWaits
<1>1. PInv => RequesterWaits
  BY DEF PInv, BoardOK, CachesOK, RequesterWaits
<1> QED BY <1>1, Invariance, PTL

\* Every test of stress_test.c passes: a load returns, in time, what was stored.
THEOREM StressPasses == Spec => []AllTestsPass
<1>1. PInv => AllTestsPass
  BY DEF PInv, ProgOK, AllTestsPass
<1> QED BY <1>1, Invariance, PTL

\* Between two routines of the program nothing is in flight.
THEOREM StressIsQuiet == Spec => []QuietBetweenRoutines
<1>1. PInv => QuietBetweenRoutines
  <2> SUFFICES ASSUME PInv, Done
               PROVE  QuietBetweenRoutines
    BY DEF QuietBetweenRoutines
  <2>1. ASSUME NEW r \in Routines
        PROVE  ~Preparing(r) /\ ~Accessing(r)
    <3>1. /\ \A x \in RegsA, s \in Seq(Items) : SetA(x) \o s # <<>>
          /\ \A x \in RegsB, s \in Seq(Items) : SetB(x) \o s # <<>>
          /\ \A n \in Nat, s \in Seq(Items) : usleep(n) \o s # <<>>
      <4>1. \A x \in Items, s \in Seq(Items) : <<x>> \o s # <<>>
        BY ConsIs
      <4> QED BY <4>1 DEF Items, SetA, SetB, usleep
    <3>2. Rest8(r) # <<>> /\ Rest7(r) # <<>> /\ Rest6(r) # <<>> /\ Rest5(r) # <<>>
          /\ Rest4(r) # <<>> /\ (\A n \in Nat : Rest3(r, n) # <<>>)
          /\ Rest2(r) # <<>> /\ Rest1(r) # <<>>
      BY <3>1, WordTypes, RestTypes, PaceAssumption
         DEF Rest1, Rest2, Rest3, Rest4, Rest5, Rest6, Rest7, Rest8
    <3>3. ~Preparing(r)
      BY <3>2 DEF Done, Preparing, AtFillWord, AtFillLine, AtFillSleep, AtClear, AtSentinel,
                  AtClearWord, AtWord, AtLine
    <3>4. ~Accessing(r)
      BY DEF Done, Accessing, AtPause, AtPoll, usleep
    <3> QED BY <3>3, <3>4
  <2>2. Quiet
    BY <2>1 DEF PInv, Idling
  <2> QED BY <2>2 DEF QuietBetweenRoutines, Quiet, Calm, CachesIdle, NoLoads, NoStores,
                      EmptyQueue, load_is_empty, store_is_empty, NoReq
<1> QED BY <1>1, Invariance, PTL

\* Every cache request is what the registers ask for.
THEOREM StressRequests == Spec => RequestsAreThePrograms
<1> DEFINE Asks == cache_req' # None =>
                     /\ cache_req'.paddr = <<reg_a.vaddr, 0>>
                     /\ cache_req'.we = (reg_a.op = "STORE")
                     /\ cache_req'.we => cache_req'.wdata = reg_b.value
<1>1. PInv /\ [Next]_vars => [Asks]_pacedVars
  <2>1. PInv /\ Next => Asks
    BY StressStep DEF Fine, RequestIsTheLines
  <2>2. UNCHANGED vars => UNCHANGED pacedVars
    BY DEF vars
  <2> QED BY <2>1, <2>2
<1>2. Spec => [][Asks]_pacedVars
  BY <1>1, Invariance, PTL DEF Spec
<1> QED BY <1>2 DEF RequestsAreThePrograms

\* No line that the program puts on the registers is taken for the one before.
THEOREM StressLinesAreNoticed == Spec => LinesAreNoticed
<1> DEFINE Sees == reg_a' # reg_a /\ reg_a'.vv => reg_a'.id # trace_id_prev'
<1>1. PInv /\ [Next]_vars => [Sees]_hpsVars
  <2>1. PInv /\ Next => Sees
    BY StressStep DEF Fine, Noticed
  <2>2. UNCHANGED vars => UNCHANGED hpsVars
    BY DEF vars, pacedVars
  <2> QED BY <2>1, <2>2
<1>2. Spec => [][Sees]_hpsVars
  BY <1>1, Invariance, PTL DEF Spec
<1> QED BY <1>2 DEF LinesAreNoticed
=============================================================================
