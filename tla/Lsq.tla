-------------------------------- MODULE Lsq --------------------------------
(***************************************************************************)
(* lsq.sv: the load/store queue.  Edge(...) is one posedge of clk with     *)
(* rst_n high: t is the trace line shown by the processor in this cycle,   *)
(* hit and pa the registered answer of the TLB, ret and rdata that of L1.  *)
(* All parts of the always_ff block see the registers as they were before  *)
(* the edge; where two parts assign the same register the later one wins.  *)
(*                                                                         *)
(* Virtual and physical addresses and data are opaque.  The pending flags  *)
(* and the one-cycle requests are records, or none; the fields of a slot   *)
(* that is not valid are kept only where they are read.  cache_ready is    *)
(* tied to 1 by every top and is left out.                                 *)
(***************************************************************************)
EXTENDS Naturals, FiniteSets

CONSTANTS QSIZE,                     \* slots of each queue (8)
          Ids, NoId,                 \* trace ids; the one the reset shows (15)
          Vaddrs, ZeroVaddr, PhysAddrs, ZeroPaddr, Values, ZeroValue,
          None                       \* nothing pending, no request

ASSUME QueueAssumption == QSIZE \in Nat \ {0, 1}
ASSUME ZeroAssumption ==
  /\ ZeroVaddr \in Vaddrs /\ ZeroPaddr \in PhysAddrs /\ ZeroValue \in Values
  /\ NoId \in Ids
ASSUME NoneAssumption ==
  /\ None \notin 0 .. (QSIZE - 1)
  /\ None \notin [is_load : BOOLEAN, idx : 0 .. (QSIZE - 1)]
  /\ None \notin [vaddr : Vaddrs, paddr : PhysAddrs]
  /\ None \notin [we : BOOLEAN, paddr : PhysAddrs, wdata : Values]

Slots   == 0 .. (QSIZE - 1)
Inc(i)  == (i + 1) % QSIZE
Ops     == {"LOAD", "STORE", "RESOLVE", "FILL", "NOP"}
\* frame is trace_line[85:56], the physical address a fill carries.
Traces  == [op : Ops, id : Ids, vv : BOOLEAN, vaddr : Vaddrs,
            dv : BOOLEAN, value : Values, frame : PhysAddrs]
Entries == [valid : BOOLEAN, resolved : BOOLEAN, ea : Vaddrs, vvalid : BOOLEAN,
            data : Values, id : Ids, tail : Slots, pa : PhysAddrs]
TlbWaits == [is_load : BOOLEAN, idx : Slots]
Fills    == [vaddr : Vaddrs, paddr : PhysAddrs]
Requests == [we : BOOLEAN, paddr : PhysAddrs, wdata : Values]

VARIABLES
  loads, stores,             \* [Slots -> Entries]; tail is the other queue's
  load_head, load_tail, store_head, store_tail,
  tlb_pending,               \* the entry that awaits its translation, or None
  cache_pending,             \* the load that awaits its data, or None
  trace_id_prev,
  tlb_req, tlb_fill, cache_req      \* registered outputs

lsqVars == <<loads, stores, load_head, load_tail, store_head, store_tail,
             tlb_pending, cache_pending, trace_id_prev,
             tlb_req, tlb_fill, cache_req>>

Blank(tail) ==
  [valid |-> FALSE, resolved |-> FALSE, ea |-> ZeroVaddr, vvalid |-> FALSE,
   data |-> ZeroValue, id |-> NoId, tail |-> tail, pa |-> ZeroPaddr]

LsqInit ==
  /\ loads = [i \in Slots |-> Blank(0)] /\ stores = [i \in Slots |-> Blank(0)]
  /\ load_head = 0 /\ load_tail = 0 /\ store_head = 0 /\ store_tail = 0
  /\ tlb_pending = None /\ cache_pending = None
  /\ trace_id_prev = NoId
  /\ tlb_req = FALSE /\ tlb_fill = None /\ cache_req = None

-----------------------------------------------------------------------------
(* Combinational parts.                                                    *)

load_is_empty  == load_head = load_tail
store_is_empty == store_head = store_tail
load_is_full   == Inc(load_tail) = load_head
store_is_full  == Inc(store_tail) = store_head

Matching(q, ea) == {i \in Slots : q[i].valid /\ q[i].resolved /\ q[i].ea = ea}

\* Positions before, and after, j in a circular queue.  The position j
\* itself is in neither.
Before(head, j) == {i \in Slots : IF j >= head THEN head <= i /\ i < j
                                  ELSE i >= head \/ i < j}
After(tail, j)  == {i \in Slots \ {j} : IF j <= tail THEN j < i /\ i <= tail
                                        ELSE j < i \/ i <= tail}

LastOf(S) == CHOOSE i \in S : \A j \in S : j <= i
\* How many slots i is behind the head: 0 is the oldest.
AgeRank(head, i) == (i + QSIZE - head) % QSIZE
Oldest(head, S)   == CHOOSE i \in S : \A j \in S : AgeRank(head, i) <= AgeRank(head, j)
Youngest(head, S) == CHOOSE i \in S : \A j \in S : AgeRank(head, j) <= AgeRank(head, i)

WithId(q, id) == {i \in Slots : q[i].valid /\ q[i].id = id}
update_idx(q, id) == IF WithId(q, id) = {} THEN 0 ELSE LastOf(WithId(q, id))

final_stores_before_load(t) ==
  Matching(stores, t.vaddr)
    \cap Before(store_head, loads[update_idx(loads, t.id)].tail)
final_loads_after_store(t) ==
  Matching(loads, t.vaddr)
    \cap After(load_tail, stores[update_idx(stores, t.id)].tail)
final_stores_after_store(t) ==
  Matching(stores, t.vaddr) \cap After(store_tail, update_idx(stores, t.id))

\* A younger resolved store to the address of the store at the head.
suppress_wb_stores_after_store ==
  \E i \in Slots \ {store_head} :
    /\ stores[i].valid /\ stores[i].resolved
    /\ stores[i].ea = stores[store_head].ea

\* Loads that have their address but not their data; looked at only while
\* no translation and no cache read is awaited.
Reruns == {i \in Slots : loads[i].valid /\ loads[i].resolved /\ ~loads[i].vvalid}
rerun_load_idx == Oldest(load_head, Reruns)

-----------------------------------------------------------------------------
(* What an edge does.                                                      *)

IsNew(t) == t.id # trace_id_prev /\ (t.op = "FILL" \/ t.vv)

\* Fault: the same operation is taken on every edge.
EnqueuesLoadAgain(t) == t.op = "LOAD" /\ t.vv
EnqueuesLoad(t)  == IsNew(t) /\ t.op = "LOAD" /\ t.vv /\ ~load_is_full
EnqueuesStore(t) == IsNew(t) /\ t.op = "STORE" /\ t.vv /\ ~store_is_full
ResolvesLoad(t)  == IsNew(t) /\ t.op = "RESOLVE" /\ WithId(loads, t.id) # {}
ResolvesStore(t) == /\ IsNew(t) /\ t.op = "RESOLVE" /\ WithId(loads, t.id) = {}
                    /\ WithId(stores, t.id) # {}
Forwards(t) == ResolvesLoad(t) /\ final_stores_before_load(t) # {}

\* The entry for which the translation of the trace line is requested.
TlbAsks(t) ==
  IF EnqueuesLoad(t) THEN [is_load |-> TRUE, idx |-> load_tail]
  ELSE IF EnqueuesStore(t) THEN [is_load |-> FALSE, idx |-> store_tail]
  ELSE IF ResolvesLoad(t) /\ ~Forwards(t)
  THEN [is_load |-> TRUE, idx |-> update_idx(loads, t.id)]
  ELSE IF ResolvesStore(t) /\ final_stores_after_store(t) = {}
  THEN [is_load |-> FALSE, idx |-> update_idx(stores, t.id)]
  ELSE IF ~IsNew(t) /\ Reruns # {} /\ tlb_pending = None /\ cache_pending = None
  THEN [is_load |-> TRUE, idx |-> rerun_load_idx]
  ELSE None

Translated(hit) == tlb_pending # None /\ hit
LoadTranslated(hit) == Translated(hit) /\ tlb_pending.is_load
TranslatedLoad(hit, i)  == LoadTranslated(hit) /\ tlb_pending.idx = i
TranslatedStore(hit, i) ==
  Translated(hit) /\ ~tlb_pending.is_load /\ tlb_pending.idx = i

Returned(ret, i) == ret /\ cache_pending = i

RetiresLoad(i)  == /\ i = load_head /\ ~load_is_empty
                   /\ loads[i].valid /\ loads[i].resolved /\ loads[i].vvalid
RetiresStore(i) == /\ i = store_head /\ ~store_is_empty
                   /\ stores[i].valid /\ stores[i].resolved /\ stores[i].vvalid

Enqueued(t, tail) ==
  [valid |-> TRUE, resolved |-> FALSE, ea |-> t.vaddr,
   vvalid |-> (t.op = "STORE" /\ t.dv),
   data |-> IF t.op = "STORE" THEN t.value ELSE ZeroValue,
   id |-> t.id, tail |-> tail, pa |-> ZeroPaddr]

NextLoad(t, hit, pa, ret, rdata, i) ==
  LET l == loads[i]
      resolving == ResolvesLoad(t) /\ i = update_idx(loads, t.id)
      forwarded == resolving /\ Forwards(t)
  IN IF EnqueuesLoad(t) /\ i = load_tail THEN Enqueued(t, store_tail)
     ELSE IF RetiresLoad(i) THEN Blank(l.tail)
     ELSE IF ~l.valid THEN l
     ELSE [valid |-> TRUE,
           resolved |-> l.resolved \/ TranslatedLoad(hit, i) \/ resolving,
           ea |-> IF resolving THEN t.vaddr ELSE l.ea,
           vvalid |-> \/ forwarded \/ Returned(ret, i)
                      \/ l.vvalid /\ i \notin final_loads_after_store(t),
           data |-> IF forwarded
                    THEN stores[Youngest(store_head, final_stores_before_load(t))].data
                    ELSE IF Returned(ret, i) THEN rdata ELSE l.data,
           id |-> l.id, tail |-> l.tail,
           pa |-> IF TranslatedLoad(hit, i) THEN pa ELSE l.pa]

NextStore(t, hit, pa, i) ==
  LET s == stores[i]
      resolving == ResolvesStore(t) /\ i = update_idx(stores, t.id)
  IN IF EnqueuesStore(t) /\ i = store_tail THEN Enqueued(t, load_tail)
     ELSE IF RetiresStore(i) THEN Blank(s.tail)
     ELSE IF ~s.valid THEN s
     ELSE [valid |-> TRUE,
           resolved |-> s.resolved \/ TranslatedStore(hit, i) \/ resolving,
           ea |-> IF resolving THEN t.vaddr ELSE s.ea,
           vvalid |-> s.vvalid, data |-> s.data, id |-> s.id, tail |-> s.tail,
           pa |-> IF TranslatedStore(hit, i) THEN pa ELSE s.pa]

\* A store that retires takes the port from a load translated on this edge.
NextCacheReq(hit, pa) ==
  IF RetiresStore(store_head) /\ ~suppress_wb_stores_after_store
  THEN [we |-> TRUE, paddr |-> stores[store_head].pa,
        wdata |-> stores[store_head].data]
  ELSE IF LoadTranslated(hit) THEN [we |-> FALSE, paddr |-> pa, wdata |-> ZeroValue]
  ELSE None

Edge(t, hit, pa, ret, rdata) ==
  /\ loads' = [i \in Slots |-> NextLoad(t, hit, pa, ret, rdata, i)]
  /\ stores' = [i \in Slots |-> NextStore(t, hit, pa, i)]
  /\ load_tail' = IF EnqueuesLoad(t) THEN Inc(load_tail) ELSE load_tail
  /\ store_tail' = IF EnqueuesStore(t) THEN Inc(store_tail) ELSE store_tail
  /\ load_head' = IF RetiresLoad(load_head) THEN Inc(load_head) ELSE load_head
  /\ store_head' = IF RetiresStore(store_head) THEN Inc(store_head) ELSE store_head
  /\ tlb_pending' = IF TlbAsks(t) # None THEN TlbAsks(t)
                    ELSE IF hit THEN None ELSE tlb_pending
  /\ cache_pending' = IF LoadTranslated(hit) THEN tlb_pending.idx
                      ELSE IF ret THEN None ELSE cache_pending
  /\ trace_id_prev' = IF IsNew(t) THEN t.id ELSE trace_id_prev
  /\ tlb_req' = (TlbAsks(t) # None)
  /\ tlb_fill' = IF IsNew(t) /\ t.op = "FILL"
                 THEN [vaddr |-> t.vaddr, paddr |-> t.frame] ELSE None
  /\ cache_req' = NextCacheReq(hit, pa)

\* Any trace line and any answers, in any cycle.
LsqNext ==
  \E t \in Traces, hit, ret \in BOOLEAN, pa \in PhysAddrs, rdata \in Values :
    Edge(t, hit, pa, ret, rdata)

LsqSpec == LsqInit /\ [][LsqNext]_lsqVars
-----------------------------------------------------------------------------
(* Properties.                                                             *)

\* The queues, the pointers and the registered outputs keep their types.
TypeOK ==
  /\ loads \in [Slots -> Entries] /\ stores \in [Slots -> Entries]
  /\ load_head \in Slots /\ load_tail \in Slots
  /\ store_head \in Slots /\ store_tail \in Slots
  /\ tlb_pending \in TlbWaits \cup {None}
  /\ cache_pending \in Slots \cup {None}
  /\ trace_id_prev \in Ids
  /\ tlb_req \in BOOLEAN
  /\ tlb_fill \in Fills \cup {None}
  /\ cache_req \in Requests \cup {None}

\* The slots from the head up to the tail of a circular queue.
Occupied(head, tail) == {i \in Slots : AgeRank(head, i) < AgeRank(head, tail)}

(***************************************************************************)
(* The valid bits and the pointers agree: a queue that is full is never    *)
(* taken for an empty one, no live entry is overwritten and the head is    *)
(* the oldest entry, whatever is enqueued, answered and retired on the     *)
(* same edge.                                                              *)
(***************************************************************************)
QueuesAreContiguous ==
  /\ {i \in Slots : loads[i].valid} = Occupied(load_head, load_tail)
  /\ {i \in Slots : stores[i].valid} = Occupied(store_head, store_tail)
=============================================================================
