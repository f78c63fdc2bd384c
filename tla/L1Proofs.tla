------------------------------ MODULE L1Proofs ------------------------------
(***************************************************************************)
(* Proofs about L1.tla, for any blocks, sets, words and queue length.      *)
(*                                                                         *)
(* First, for any sequence of requests and responses, its invariants.  The *)
(* induction rests on two facts about one clock edge: what it does to the  *)
(* tags (TagStep) and to the miss registers (MshrStep).                    *)
(*                                                                         *)
(* Then, under a requester that waits for its answers and over a level     *)
(* below that answers in order (L1Blocking.tla), that it implements        *)
(* WordMemory.tla.                                                         *)
(***************************************************************************)
EXTENDS L1Blocking, Arithmetic

-----------------------------------------------------------------------------
(* Operators.                                                              *)

\* The last of a non-empty set of queue slots is one of them.
LEMMA LastIsMember ==
  ASSUME NEW n \in Nat, NEW S \in SUBSET (1 .. n), S # {}
  PROVE  LastOf(S) \in S
<1>1. S \in SUBSET (0 .. n)
  OBVIOUS
<1>2. PICK m \in S : \A k \in S : k <= m
  BY <1>1, GreatestElement
<1> QED BY <1>2 DEF LastOf

\* The first of a non-empty set of queue slots is one of them.
LEMMA FirstIsMember ==
  ASSUME NEW n \in Nat, NEW S \in SUBSET (1 .. n), S # {}
  PROVE  FirstOf(S) \in S
<1>1. PICK m \in S : \A k \in S : m <= k
  BY LeastElement
<1> QED BY <1>1 DEF FirstOf

\* Applying queued stores to a line gives a line.
LEMMA ReplayType ==
  ASSUME NEW line \in Lines, NEW q \in Seq(Ops)
  PROVE  Replay(line, q) \in Lines
<1> SUFFICES ASSUME NEW o \in Offsets
             PROVE  (IF StoresTo(q, o) = {} THEN line[o]
                     ELSE q[LastOf(StoresTo(q, o))].data) \in Words
  BY DEF Replay, Lines
<1>1. CASE StoresTo(q, o) = {}
  BY <1>1 DEF Lines
<1>2. CASE StoresTo(q, o) # {}
  <2>1. StoresTo(q, o) \in SUBSET (1 .. Len(q))
    BY DEF StoresTo, Stores
  <2>2. Len(q) \in Nat
    OBVIOUS
  <2> DEFINE k == LastOf(StoresTo(q, o))
  <2>3. k \in 1 .. Len(q)
    BY <1>2, <2>1, <2>2, LastIsMember
  <2>4. q[k] \in Ops
    <3> HIDE DEF k
    <3> QED BY <2>3
  <2> QED BY <1>2, <2>4 DEF Ops
<1> QED BY <1>1, <1>2

\* A merge keeps the queue a queue and its tail below the number of slots.
LEMMA EnqueueType ==
  ASSUME NEW q \in Seq(Ops), Len(q) < QSLOTS, NEW op \in Ops
  PROVE  Enqueue(q, op) \in Seq(Ops) /\ Len(Enqueue(q, op)) < QSLOTS
<1>1. QSLOTS \in Nat /\ QSLOTS > 1
  BY DataAssumption
<1>2. Len(Append(q, op)) = Len(q) + 1 /\ Append(q, op) \in Seq(Ops)
  OBVIOUS
<1>3. <<>> \in Seq(Ops) /\ Len(<<>>) = 0
  OBVIOUS
<1>4. Len(q) \in Nat
  OBVIOUS
<1>5. CASE Len(q) + 1 = QSLOTS
  BY <1>1, <1>3, <1>5 DEF Enqueue
<1>6. CASE Len(q) + 1 # QSLOTS
  BY <1>1, <1>2, <1>4, <1>6 DEF Enqueue
<1> QED BY <1>5, <1>6

\* A request on the port names a block, an offset and a word.
LEMMA RequestType ==
  ASSUME NEW r \in Reqs, r.valid
  PROVE  /\ r.write \in BOOLEAN /\ r.block \in Blocks
         /\ r.offset \in Offsets /\ r.wdata \in Words
<1>1. ~NoReq.valid
  BY DEF NoReq
<1>2. r # NoReq
  BY <1>1
<1>3. r \in [valid : {TRUE}, write : BOOLEAN, block : Blocks,
               offset : Offsets, wdata : Words]
  BY <1>2 DEF Reqs
<1> QED BY <1>3

\* A recorded operation is an operation.
LEMMA QueuedOpType ==
  ASSUME NEW r \in Reqs, r.valid
  PROVE  QueuedOp(r) \in Ops
BY RequestType, DataAssumption DEF QueuedOp, Ops

\* The values of address registers after reset are addresses.
LEMMA SomeBlock ==
  /\ AnyBlock \in Blocks
  /\ \A s \in Sets : TagZero(s) \in Blocks /\ SetOf[TagZero(s)] = s
BY SetsAssumption DEF AnyBlock, TagZero

\* At most one MSHR takes the returned line.
LEMMA OneRefill ==
  ASSUME NEW resp, NEW m \in Mshrs, NEW n \in Mshrs,
         Refilling(resp, m), Refilling(resp, n)
  PROVE  m = n
BY DEF Refilling, Mshrs

-----------------------------------------------------------------------------
(* Types.                                                                  *)

USE DEF Ways, Mshrs

\* The victim, the hit way and a refilled line.
LEMMA RefillType ==
  ASSUME TypeOK, NEW resp \in Lines \cup {NoLine}, NEW m \in Mshrs,
         Refilling(resp, m)
  PROVE  /\ mshr[m].block_addr \in Blocks
         /\ SetOf[mshr[m].block_addr] \in Sets
         /\ RefillWay(SetOf[mshr[m].block_addr]) \in Ways
         /\ mshr[m].queue \in Seq(Ops)
         /\ Replay(resp, mshr[m].queue) \in Lines
<1>1. mshr[m] \in MshrRec
  BY DEF TypeOK
<1>2. mshr[m].block_addr \in Blocks /\ mshr[m].queue \in Seq(Ops)
  BY <1>1 DEF MshrRec
<1>3. SetOf[mshr[m].block_addr] \in Sets
  BY <1>2, SetsAssumption
<1>4. resp \in Lines
  BY DEF Refilling
<1>5. \A s \in Sets : RefillWay(s) \in Ways
  BY DEF RefillWay, TypeOK
<1> QED BY <1>2, <1>3, <1>4, <1>5, ReplayType

LEMMA RefilledLinesType ==
  ASSUME TypeOK, NEW resp \in Lines \cup {NoLine}, NEW m \in Mshrs,
         Refilling(resp, m)
  PROVE  RefilledLines(resp, m) \in [Ways -> [Sets -> LineRec]]
<1> DEFINE b == mshr[m].block_addr
           w == RefillWay(SetOf[b])
           d == Replay(resp, mshr[m].queue)
           new == [valid |-> TRUE, dirty |-> Stores(mshr[m].queue) # {},
                   tag |-> b, data |-> d]
<1>1. b \in Blocks /\ SetOf[b] \in Sets /\ w \in Ways /\ d \in Lines
  BY RefillType
<1>2. new \in LineRec
  BY <1>1 DEF LineRec
<1>3. lines \in [Ways -> [Sets -> LineRec]]
  BY DEF TypeOK
<1>4. RefilledLines(resp, m) = [lines EXCEPT ![w][SetOf[b]] = new]
  BY DEF RefilledLines
<1> HIDE DEF b, w, d, new
<1> QED BY <1>1, <1>2, <1>3, <1>4

LEMMA NextLinesType ==
  ASSUME TypeOK, NEW r \in Reqs, NEW resp \in Lines \cup {NoLine}
  PROVE  NextLines(r, resp) \in [Ways -> [Sets -> LineRec]]
<1> DEFINE base == IF Refilling(resp, 0) THEN RefilledLines(resp, 0)
                   ELSE IF Refilling(resp, 1) THEN RefilledLines(resp, 1)
                   ELSE lines
           w == HitWay(r.block)
           s == SetOf[r.block]
           l == [valid |-> TRUE, dirty |-> TRUE, tag |-> base[w][s].tag,
                 data |-> [base[w][s].data EXCEPT ![r.offset] = r.wdata]]
           t == [base EXCEPT ![w][s] = l]
<1>1. base \in [Ways -> [Sets -> LineRec]]
  BY RefilledLinesType DEF TypeOK
<1>2. ASSUME StoreHit(r) PROVE t \in [Ways -> [Sets -> LineRec]]
  <2>1. r.block \in Blocks /\ r.offset \in Offsets /\ r.wdata \in Words
    BY <1>2, RequestType DEF StoreHit
  <2>2. w \in Ways /\ s \in Sets
    BY <2>1, SetsAssumption DEF HitWay
  <2> HIDE DEF base, w, s
  <2>3. base[w][s] \in LineRec
    BY <1>1, <2>2
  <2>4. [base[w][s].data EXCEPT ![r.offset] = r.wdata] \in Lines
    BY <2>1, <2>3 DEF LineRec, Lines
  <2>5. l \in LineRec
    BY <2>3, <2>4 DEF LineRec
  <2> HIDE DEF l
  <2> QED BY <1>1, <2>2, <2>5
<1>3. NextLines(r, resp) = IF StoreHit(r) THEN t ELSE base
  BY DEF NextLines
<1> HIDE DEF base, t
<1> QED BY <1>1, <1>2, <1>3

LEMMA NextMshrType ==
  ASSUME TypeOK, NEW r \in Reqs, NEW resp \in Lines \cup {NoLine},
         NEW m \in Mshrs
  PROVE  /\ NextMshr(r, resp, m) \in MshrRec
         /\ Len(NextMshr(r, resp, m).queue) < QSLOTS
<1>1. /\ mshr[m] \in MshrRec /\ Len(mshr[m].queue) < QSLOTS
      /\ QSLOTS \in Nat /\ 1 < QSLOTS
  BY DataAssumption DEF TypeOK
<1>2. CASE Allocates(r, m)
  <2>1. r.valid
    BY <1>2 DEF Allocates, Miss
  <2>2. <<QueuedOp(r)>> \in Seq(Ops) /\ Len(<<QueuedOp(r)>>) = 1
    BY <2>1, QueuedOpType
  <2>3. r.block \in Blocks
    BY <2>1, RequestType
  <2> QED BY <1>1, <1>2, <2>2, <2>3 DEF NextMshr, MshrRec
<1>3. CASE ~Allocates(r, m) /\ Refilling(resp, m)
  <2>1. <<>> \in Seq(Ops) /\ Len(<<>>) = 0
    OBVIOUS
  <2> DEFINE freed == [valid |-> FALSE, block_addr |-> mshr[m].block_addr,
                       mem_sent |-> FALSE, queue |-> <<>>]
  <2>2. NextMshr(r, resp, m) = freed
    BY <1>1, <1>3 DEF NextMshr, MshrRec
  <2>3. freed \in MshrRec
    BY <1>1, <2>1 DEF MshrRec
  <2>4. freed.queue = <<>>
    OBVIOUS
  <2> HIDE DEF freed
  <2> QED BY <1>1, <2>1, <2>2, <2>3, <2>4
<1>4. CASE ~Allocates(r, m) /\ ~Refilling(resp, m)
  <2> DEFINE q == IF Merges(r, m) THEN Enqueue(mshr[m].queue, QueuedOp(r))
                  ELSE mshr[m].queue
  <2>1. mshr[m].queue \in Seq(Ops)
    BY <1>1 DEF MshrRec
  <2>2. q \in Seq(Ops) /\ Len(q) < QSLOTS
    <3>1. CASE Merges(r, m)
      BY <1>1, <2>1, <3>1, QueuedOpType, EnqueueType DEF Merges, Miss
    <3> QED BY <1>1, <2>1, <3>1
  <2>3. (mshr[m].mem_sent \/ Issuing(m)) \in BOOLEAN
    BY <1>1 DEF Issuing, Unsent, MshrRec
  <2>4. NextMshr(r, resp, m) =
          [mshr[m] EXCEPT !.mem_sent = mshr[m].mem_sent \/ Issuing(m), !.queue = q]
    BY <1>4 DEF NextMshr
  <2> HIDE DEF q
  <2> QED BY <1>1, <2>2, <2>3, <2>4 DEF MshrRec
<1> QED BY <1>2, <1>3, <1>4

LEMMA InitType == L1Init => TypeOK
<1> SUFFICES ASSUME L1Init PROVE TypeOK
  OBVIOUS
<1>1. ZeroWord \in Words /\ QSLOTS \in Nat /\ 0 < QSLOTS /\ ZeroLine \in Lines
  BY DataAssumption DEF ZeroLine, Lines
<1>2. <<>> \in Seq(Ops) /\ Len(<<>>) = 0
  OBVIOUS
<1>3. \A s \in Sets : [valid |-> FALSE, dirty |-> FALSE, tag |-> TagZero(s),
                       data |-> ZeroLine] \in LineRec
  BY <1>1, SomeBlock DEF LineRec
<1>4. lines \in [Ways -> [Sets -> LineRec]]
  BY <1>3 DEF L1Init
<1>5. mshr \in [Mshrs -> MshrRec] /\ \A m \in Mshrs : Len(mshr[m].queue) < QSLOTS
  BY <1>1, <1>2, SomeBlock DEF L1Init, MshrRec
<1> QED BY <1>1, <1>4, <1>5, SomeBlock DEF L1Init, TypeOK

LEMMA EdgeType ==
  ASSUME TypeOK, NEW r \in Reqs, NEW resp \in Lines \cup {NoLine},
         Edge(r, resp)
  PROVE  TypeOK'
<1>1. lines' \in [Ways -> [Sets -> LineRec]]
  BY NextLinesType DEF Edge
<1>2. /\ mshr' \in [Mshrs -> MshrRec]
      /\ \A m \in Mshrs : Len(mshr'[m].queue) < QSLOTS
  BY NextMshrType DEF Edge
<1>3. lru_array' \in [Sets -> Ways]
  <2>1. \A s \in Sets : RefillWay(s) \in Ways /\ lru_array[s] \in Ways
    BY DEF RefillWay, TypeOK
  <2>2. HitWay(r.block) \in Ways
    BY DEF HitWay
  <2> QED BY <2>1, <2>2 DEF Edge, NextLru
<1>4. l2_req_valid' \in BOOLEAN /\ l2_req_addr' \in Blocks
  BY DEF Edge, Issue, TypeOK, MshrRec
<1>5. wb_valid' \in BOOLEAN /\ wb_addr' \in Blocks /\ wb_data' \in Lines
  <2>1. CASE \E m \in Mshrs : Refilling(resp, m)
    <3> DEFINE m == CHOOSE n \in Mshrs : Refilling(resp, n)
               s == SetOf[mshr[m].block_addr]
               victim == lines[RefillWay(s)][s]
    <3>1. m \in Mshrs /\ Refilling(resp, m)
      BY <2>1
    <3>2. victim \in LineRec
      <4> HIDE DEF m
      <4> QED BY <3>1, RefillType DEF TypeOK
    <3>3. /\ wb_valid' = (victim.valid /\ victim.dirty)
          /\ wb_addr' \in {victim.tag, wb_addr}
          /\ wb_data' \in {victim.data, wb_data}
      BY <2>1 DEF Edge, WriteBack
    <3> HIDE DEF victim
    <3> QED BY <3>2, <3>3 DEF LineRec, TypeOK
  <2>2. CASE ~\E m \in Mshrs : Refilling(resp, m)
    BY <2>2 DEF Edge, WriteBack, TypeOK
  <2> QED BY <2>1, <2>2
<1>6. refill_resp_valid' \in BOOLEAN /\ refill_resp_data' \in Words
  <2>1. CASE \E m \in Mshrs : Refilling(resp, m) /\ Loads(mshr[m].queue) # {}
    <3> DEFINE m == CHOOSE n \in Mshrs : Refilling(resp, n)
               q == mshr[m].queue
               k == FirstOf(Loads(q))
    <3>1. m \in Mshrs /\ Refilling(resp, m) /\ Loads(q) # {}
      BY <2>1, OneRefill
    <3>2. q \in Seq(Ops) /\ Replay(resp, q) \in Lines
      <4> HIDE DEF m
      <4> QED BY <3>1, RefillType
    <3>3. /\ refill_resp_valid' = TRUE
          /\ refill_resp_data' = Replay(resp, q)[q[k].offset]
      BY <2>1 DEF Edge, RefillAnswer
    <3> HIDE DEF m, q
    <3>4. Loads(q) \in SUBSET (1 .. Len(q)) /\ Len(q) \in Nat
      BY <3>2 DEF Loads
    <3>5. k \in 1 .. Len(q)
      BY <3>1, <3>4, FirstIsMember
    <3> HIDE DEF k
    <3>6. q[k] \in Ops
      BY <3>2, <3>5
    <3>7. q[k].offset \in Offsets
      BY <3>6 DEF Ops
    <3> QED BY <3>2, <3>3, <3>7 DEF Lines
  <2>2. CASE ~\E m \in Mshrs : Refilling(resp, m) /\ Loads(mshr[m].queue) # {}
    BY <2>2 DEF Edge, RefillAnswer, TypeOK
  <2> QED BY <2>1, <2>2
<1>7. read_hit_pending' \in BOOLEAN /\ write_ack_pending' \in BOOLEAN
  <2>1. LoadHit(r) \in BOOLEAN /\ StoreHit(r) \in BOOLEAN
    <3>1. CASE r.valid
      BY <3>1, RequestType DEF LoadHit, StoreHit, lookup_hit
    <3>2. CASE ~r.valid
      BY <3>2 DEF LoadHit, StoreHit
    <3> QED BY <3>1, <3>2
  <2> QED BY <2>1 DEF Edge, RefillAck
<1>8. grabbedData' \in Words
  <2>1. CASE LoadHit(r)
    <3>1. r.block \in Blocks /\ r.offset \in Offsets
      BY <2>1, RequestType DEF LoadHit
    <3>2. HitWay(r.block) \in Ways /\ SetOf[r.block] \in Sets
      BY <3>1, SetsAssumption DEF HitWay
    <3>3. lines[HitWay(r.block)][SetOf[r.block]] \in LineRec
      BY <3>2 DEF TypeOK
    <3> QED BY <2>1, <3>1, <3>3 DEF Edge, LineRec, Lines
  <2>2. CASE ~LoadHit(r)
    BY <2>2 DEF Edge, TypeOK
  <2> QED BY <2>1, <2>2
<1>9. resp_valid_read_hit' \in BOOLEAN /\ resp_valid_write' \in BOOLEAN
  BY DEF Edge, TypeOK
<1> QED BY <1>1, <1>2, <1>3, <1>4, <1>5, <1>6, <1>7, <1>8, <1>9 DEF TypeOK

(* An idle step changes nothing a predicate over the state mentions.       *)
LEMMA TypeStep == TypeOK /\ [L1Next]_l1Vars => TypeOK'
<1> SUFFICES ASSUME TypeOK, [L1Next]_l1Vars PROVE TypeOK'
  OBVIOUS
<1>1. CASE L1Next
  BY <1>1, EdgeType DEF L1Next
<1>2. CASE UNCHANGED l1Vars
  BY <1>2 DEF l1Vars, TypeOK
<1> QED BY <1>1, <1>2

(***************************************************************************)
(* L1_Cache.sv keeps its arrays, miss registers and ports in their types,  *)
(* and no queue tail ever reaches the number of slots.                     *)
(***************************************************************************)
THEOREM TypeCorrect == L1Spec => []TypeOK
<1> QED BY InitType, TypeStep, PTL DEF L1Spec

-----------------------------------------------------------------------------
(***************************************************************************)
(* Where a block can be.  The invariant: a line is in the set of its       *)
(* block; a block is in one way at most; a block being fetched is in no    *)
(* way and in one miss register only; what is asked of the L2 is not what  *)
(* is handed to it.                                                        *)
(***************************************************************************)
IInv == /\ TypeOK /\ LinesInTheirSet
        /\ OneCopyPerBlock /\ MissesAreAbsent /\ NoFetchOfEvicted

\* The way and set a refill writes.
RefilledAt(resp, m, w, s) ==
  Refilling(resp, m) /\ SetOf[mshr[m].block_addr] = s /\ RefillWay(s) = w

(***************************************************************************)
(* One edge leaves the tag and valid bit of a way as they are, or makes it *)
(* the valid line of the block being refilled.                             *)
(***************************************************************************)
LEMMA TagStep ==
  ASSUME TypeOK, NEW r \in Reqs, NEW resp \in Lines \cup {NoLine},
         Edge(r, resp), NEW w \in Ways, NEW s \in Sets
  PROVE  \/ /\ lines'[w][s].tag = lines[w][s].tag
            /\ lines'[w][s].valid = lines[w][s].valid
            /\ \A m \in Mshrs : ~RefilledAt(resp, m, w, s)
         \/ \E m \in Mshrs : /\ RefilledAt(resp, m, w, s)
                             /\ lines'[w][s].tag = mshr[m].block_addr
                             /\ lines'[w][s].valid
<1> DEFINE base == IF Refilling(resp, 0) THEN RefilledLines(resp, 0)
                   ELSE IF Refilling(resp, 1) THEN RefilledLines(resp, 1)
                   ELSE lines
           hw == HitWay(r.block)
           hs == SetOf[r.block]
<1>1. base \in [Ways -> [Sets -> LineRec]]
  BY RefilledLinesType DEF TypeOK
<1>2. \/ base[w][s] = lines[w][s] /\ \A m \in Mshrs : ~RefilledAt(resp, m, w, s)
      \/ \E m \in Mshrs : /\ RefilledAt(resp, m, w, s)
                          /\ base[w][s].tag = mshr[m].block_addr
                          /\ base[w][s].valid
  <2>1. ASSUME NEW m \in Mshrs, Refilling(resp, m)
        PROVE  /\ base = RefilledLines(resp, m)
               /\ \A n \in Mshrs : Refilling(resp, n) => n = m
    BY <2>1, OneRefill
  <2>2. ASSUME NEW m \in Mshrs, Refilling(resp, m), ~RefilledAt(resp, m, w, s)
        PROVE  RefilledLines(resp, m)[w][s] = lines[w][s]
    BY <2>2, RefillType DEF RefilledAt, RefilledLines, TypeOK
  <2>3. ASSUME NEW m \in Mshrs, RefilledAt(resp, m, w, s)
        PROVE  /\ RefilledLines(resp, m)[w][s].tag = mshr[m].block_addr
               /\ RefilledLines(resp, m)[w][s].valid
    BY <2>3, RefillType DEF RefilledAt, RefilledLines, TypeOK
  <2>4. CASE \E m \in Mshrs : Refilling(resp, m)
    <3>1. PICK m \in Mshrs : Refilling(resp, m)
      BY <2>4
    <3> HIDE DEF base
    <3>2. CASE RefilledAt(resp, m, w, s)
      BY <2>1, <2>3, <3>1, <3>2
    <3>3. CASE ~RefilledAt(resp, m, w, s)
      BY <2>1, <2>2, <3>1, <3>3 DEF RefilledAt
    <3> QED BY <3>2, <3>3
  <2>5. CASE ~\E m \in Mshrs : Refilling(resp, m)
    BY <2>5 DEF RefilledAt
  <2> QED BY <2>4, <2>5
<1>3. lines' = IF StoreHit(r)
               THEN [base EXCEPT ![hw][hs] =
                       [valid |-> TRUE, dirty |-> TRUE, tag |-> @.tag,
                        data |-> [@.data EXCEPT ![r.offset] = r.wdata]]]
               ELSE base
  BY DEF Edge, NextLines
\* A store hit goes to a way that was valid before the edge.
<1>4. ASSUME StoreHit(r), hw = w, hs = s
      PROVE  lines[w][s].valid = TRUE
  BY <1>4 DEF StoreHit, lookup_hit, HitWay, HitIn, TypeOK, LineRec
<1> HIDE DEF base, hw, hs
<1>5. /\ lines'[w][s].tag = base[w][s].tag
      /\ \/ lines'[w][s].valid = base[w][s].valid
         \/ lines'[w][s].valid = TRUE /\ StoreHit(r) /\ hw = w /\ hs = s
  <2>1. CASE ~StoreHit(r)
    <3>1. lines' = base
      BY <1>3, <2>1
    <3> QED BY <3>1
  <2>2. CASE StoreHit(r)
    <3> DEFINE l == [valid |-> TRUE, dirty |-> TRUE, tag |-> base[hw][hs].tag,
                     data |-> [base[hw][hs].data EXCEPT ![r.offset] = r.wdata]]
    <3>1. lines' = [base EXCEPT ![hw][hs] = l]
      BY <1>3, <2>2
    <3>2. l.tag = base[hw][hs].tag /\ l.valid = TRUE
      OBVIOUS
    <3> HIDE DEF l
    <3>3. CASE hw = w /\ hs = s
      BY <1>1, <2>2, <3>1, <3>2, <3>3
    <3>4. CASE ~(hw = w /\ hs = s)
      <4>1. lines'[w][s] = base[w][s]
        BY <1>1, <3>1, <3>4
      <4> QED BY <4>1
    <3> QED BY <3>3, <3>4
  <2> QED BY <2>1, <2>2
<1> QED BY <1>1, <1>2, <1>4, <1>5 DEF LineRec

\* A valid miss register after an edge was allocated in it or was valid and
\* not refilled.
LEMMA MshrStep ==
  ASSUME TypeOK, NEW r \in Reqs, NEW resp \in Lines \cup {NoLine},
         Edge(r, resp), NEW m \in Mshrs, mshr'[m].valid
  PROVE  \/ Allocates(r, m) /\ mshr'[m].block_addr = r.block
         \/ /\ mshr[m].valid /\ ~Refilling(resp, m)
            /\ mshr'[m].block_addr = mshr[m].block_addr
<1>1. mshr[m] \in MshrRec
  BY DEF TypeOK
<1>2. mshr'[m] = NextMshr(r, resp, m)
  BY DEF Edge
<1> QED BY <1>1, <1>2 DEF NextMshr, MshrRec

\* A block that is in the cache after an edge was there before it, or is
\* the one being refilled.
LEMMA HitStep ==
  ASSUME TypeOK, NEW r \in Reqs, NEW resp \in Lines \cup {NoLine},
         Edge(r, resp), NEW b \in Blocks, lookup_hit(b)'
  PROVE  \/ lookup_hit(b)
         \/ \E m \in Mshrs : Refilling(resp, m) /\ mshr[m].block_addr = b
<1>1. PICK w \in Ways : lines'[w][SetOf[b]].valid /\ lines'[w][SetOf[b]].tag = b
  BY DEF lookup_hit, HitIn
<1>2. SetOf[b] \in Sets
  BY SetsAssumption
<1> QED BY <1>1, <1>2, TagStep DEF lookup_hit, HitIn, RefilledAt

\* A valid line is a hit for its block.
LEMMA ValidIsHit ==
  ASSUME TypeOK, LinesInTheirSet, NEW w \in Ways, NEW s \in Sets,
         lines[w][s].valid
  PROVE  lookup_hit(lines[w][s].tag)
BY DEF lookup_hit, HitIn, LinesInTheirSet

LEMMA EdgeIInv ==
  ASSUME IInv, NEW r \in Reqs, NEW resp \in Lines \cup {NoLine},
         Edge(r, resp)
  PROVE  IInv'
<1>1. TypeOK'
  BY EdgeType DEF IInv
<1>2. LinesInTheirSet'
  BY TagStep DEF IInv, LinesInTheirSet, RefilledAt
<1>3. OneCopyPerBlock'
  <2> SUFFICES ASSUME NEW s \in Sets, lines'[0][s].valid, lines'[1][s].valid,
                      lines'[0][s].tag = lines'[1][s].tag
               PROVE  FALSE
    BY DEF OneCopyPerBlock
  \* Both ways cannot be refilled; if one is, its block was not in the other.
  <2>1. ASSUME NEW w \in Ways, NEW m \in Mshrs, RefilledAt(resp, m, w, s),
               lines'[w][s].tag = mshr[m].block_addr
        PROVE  FALSE
    <3>1. PICK v \in Ways : v # w
      OBVIOUS
    <3>2. ~\E n \in Mshrs : RefilledAt(resp, n, v, s)
      BY <2>1, <3>1 DEF RefilledAt
    <3>3. lines[v][s].tag = mshr[m].block_addr /\ lines[v][s].valid
      BY <2>1, <3>1, <3>2, TagStep DEF IInv
    <3>4. lookup_hit(mshr[m].block_addr)
      BY <3>3, ValidIsHit DEF IInv
    <3> QED BY <2>1, <3>4 DEF IInv, MissesAreAbsent, RefilledAt, Refilling, Sent
  <2>2. \A w \in Ways : /\ lines'[w][s].tag = lines[w][s].tag
                        /\ lines'[w][s].valid = lines[w][s].valid
    BY <2>1, TagStep DEF IInv
  <2> QED BY <2>2 DEF IInv, OneCopyPerBlock
<1>4. MissesAreAbsent'
  <2>1. ASSUME NEW m \in Mshrs, mshr'[m].valid
        PROVE  ~lookup_hit(mshr[m].block_addr)'
    <3>1. PICK b \in Blocks : b = mshr'[m].block_addr
      BY <1>1 DEF TypeOK, MshrRec
    <3>2. CASE Allocates(r, m) /\ b = r.block
      <4>1. ~lookup_hit(b) /\ \A n \in Mshrs : ~InMshr(n, b)
        BY <3>2 DEF Allocates, Miss
      <4>2. ~lookup_hit(b)'
        BY <4>1, HitStep DEF IInv, InMshr, Refilling, Sent
      <4> QED BY <3>1, <4>2 DEF lookup_hit, HitIn
    <3>3. CASE mshr[m].valid /\ ~Refilling(resp, m) /\ b = mshr[m].block_addr
      <4>1. ~lookup_hit(b)
        BY <3>3 DEF IInv, MissesAreAbsent
      <4>2. ASSUME NEW n \in Mshrs, Refilling(resp, n), mshr[n].block_addr = b
            PROVE  FALSE
        BY <3>3, <4>2 DEF IInv, MissesAreAbsent, Refilling, Sent
      <4>3. ~lookup_hit(b)'
        BY <4>1, <4>2, HitStep DEF IInv
      <4> QED BY <3>1, <4>3 DEF lookup_hit, HitIn
    <3> QED BY <2>1, <3>1, <3>2, <3>3, MshrStep DEF IInv
  <2>2. ASSUME mshr'[0].valid, mshr'[1].valid
        PROVE  mshr'[0].block_addr # mshr'[1].block_addr
    <3>1. ~(Allocates(r, 0) /\ Allocates(r, 1))
      BY DEF Allocates
    <3>2. ASSUME NEW m \in Mshrs, NEW n \in Mshrs, m # n,
                 Allocates(r, m), mshr'[m].block_addr = r.block,
                 mshr[n].valid, mshr'[n].block_addr = mshr[n].block_addr
          PROVE  mshr'[m].block_addr # mshr'[n].block_addr
      BY <3>2 DEF Allocates, InMshr
    <3>3. \A m \in Mshrs :
            \/ Allocates(r, m) /\ mshr'[m].block_addr = r.block
            \/ mshr[m].valid /\ mshr'[m].block_addr = mshr[m].block_addr
      BY <2>2, MshrStep DEF IInv
    <3>4. CASE \A m \in Mshrs :
                 mshr[m].valid /\ mshr'[m].block_addr = mshr[m].block_addr
      BY <3>4 DEF IInv, MissesAreAbsent
    <3>5. CASE Allocates(r, 0) /\ mshr'[0].block_addr = r.block
      BY <3>1, <3>2, <3>3, <3>5
    <3>6. CASE Allocates(r, 1) /\ mshr'[1].block_addr = r.block
      BY <3>1, <3>2, <3>3, <3>6
    <3> QED BY <3>3, <3>4, <3>5, <3>6
  <2> QED BY <2>1, <2>2 DEF MissesAreAbsent
<1>5. NoFetchOfEvicted'
  <2> SUFFICES ASSUME l2_req_valid', wb_valid', l2_req_addr' = wb_addr'
               PROVE  FALSE
    BY DEF NoFetchOfEvicted
  <2>1. PICK m \in Mshrs : mshr[m].valid /\ l2_req_addr' = mshr[m].block_addr
    BY DEF Edge, Issue, Issuing, Unsent
  <2>2. ~lookup_hit(l2_req_addr')
    BY <2>1 DEF IInv, MissesAreAbsent
  <2>3. \E m2 \in Mshrs : Refilling(resp, m2)
    BY DEF Edge, WriteBack
  <2>4. PICK n \in Mshrs : n = (CHOOSE k \in Mshrs : Refilling(resp, k))
                           /\ Refilling(resp, n)
    BY <2>3
  <2> DEFINE s == SetOf[mshr[n].block_addr]
             w == RefillWay(s)
  <2>5. lines[w][s].valid /\ wb_addr' = lines[w][s].tag
    BY <2>3, <2>4 DEF Edge, WriteBack
  <2>6. w \in Ways /\ s \in Sets
    BY <2>4, RefillType DEF IInv
  <2>7. lookup_hit(wb_addr')
    <3> HIDE DEF w, s
    <3> QED BY <2>5, <2>6, ValidIsHit DEF IInv
  <2> QED BY <2>2, <2>7
<1> QED BY <1>1, <1>2, <1>3, <1>4, <1>5 DEF IInv

LEMMA StepIInv == IInv /\ [L1Next]_l1Vars => IInv'
<1> SUFFICES ASSUME IInv, [L1Next]_l1Vars PROVE IInv'
  OBVIOUS
<1>1. CASE L1Next
  BY <1>1, EdgeIInv DEF L1Next
<1>2. CASE UNCHANGED l1Vars
  BY <1>2 DEF l1Vars, IInv, TypeOK, LinesInTheirSet, OneCopyPerBlock,
              MissesAreAbsent, NoFetchOfEvicted, lookup_hit, HitIn
<1> QED BY <1>1, <1>2

LEMMA InitIInv == L1Init => IInv
<1> SUFFICES ASSUME L1Init PROVE IInv
  OBVIOUS
<1>1. LinesInTheirSet
  BY SomeBlock DEF L1Init, LinesInTheirSet
<1> QED BY <1>1, InitType DEF L1Init, IInv, OneCopyPerBlock, MissesAreAbsent,
                              NoFetchOfEvicted

LEMMA Inductive == L1Spec => []IInv
<1> QED BY InitIInv, StepIInv, PTL DEF L1Spec

(***************************************************************************)
(* A block is never in both ways of its set of L1_Cache.sv, whatever the   *)
(* requests and whenever the L2 answers.                                   *)
(***************************************************************************)
THEOREM UniqueCopies == L1Spec => []OneCopyPerBlock
<1>1. IInv => OneCopyPerBlock
  BY DEF IInv
<1> QED BY <1>1, Inductive, PTL

(***************************************************************************)
(* A block in a miss register is in no way and in no other miss register,  *)
(* so a refill overwrites no newer copy of its block.                      *)
(***************************************************************************)
THEOREM AbsentMisses == L1Spec => []MissesAreAbsent
<1>1. IInv => MissesAreAbsent
  BY DEF IInv
<1> QED BY <1>1, Inductive, PTL

(***************************************************************************)
(* The cache never asks the L2 for a line in the cycle it hands that line  *)
(* back.                                                                   *)
(***************************************************************************)
THEOREM FetchIsNotEvicted == L1Spec => []NoFetchOfEvicted
<1>1. IInv => NoFetchOfEvicted
  BY DEF IInv
<1> QED BY <1>1, Inductive, PTL

(***************************************************************************)
(* A dirty line leaves the arrays only through the write-back port.        *)
(***************************************************************************)
THEOREM NothingDirtyIsLost == L1Spec => DirtyLinesAreWrittenBack
<1>1. IInv /\ [L1Next]_l1Vars =>
        [\A w \in Ways, s \in Sets :
           LET old == lines[w][s]
           IN old.valid /\ old.dirty /\ lines'[w][s].tag # old.tag
                => wb_valid' /\ wb_addr' = old.tag /\ wb_data' = old.data]_l1Vars
  <2> SUFFICES ASSUME IInv, L1Next, NEW w \in Ways, NEW s \in Sets,
                      lines[w][s].valid, lines[w][s].dirty,
                      lines'[w][s].tag # lines[w][s].tag
               PROVE  /\ wb_valid' /\ wb_addr' = lines[w][s].tag
                      /\ wb_data' = lines[w][s].data
    OBVIOUS
  <2>1. PICK r \in Reqs, resp \in Lines \cup {NoLine} : Edge(r, resp)
    BY DEF L1Next
  <2>2. PICK m \in Mshrs : RefilledAt(resp, m, w, s)
    BY <2>1, TagStep DEF IInv
  <2>3. Refilling(resp, m) /\ m = (CHOOSE n \in Mshrs : Refilling(resp, n))
    BY <2>2, OneRefill DEF RefilledAt
  <2> QED BY <2>1, <2>2, <2>3 DEF Edge, WriteBack, RefilledAt
<1> QED BY <1>1, Inductive, PTL DEF L1Spec, DirtyLinesAreWrittenBack

-----------------------------------------------------------------------------
(***************************************************************************)
(* L1 as a memory of words.  A request goes through a few phases, and in   *)
(* each of them it is in one place only: on the port, in the hit register, *)
(* in MSHR 0 with its queue to itself, in the acknowledge register, or     *)
(* answered.  The contents of a block survive every clock edge because     *)
(* clean lines agree with what is behind them, and because nothing is      *)
(* being written back while a line is being fetched.                       *)
(***************************************************************************)

NoAnswer == ~resp_valid_read_hit /\ ~refill_resp_valid /\ ~resp_valid_write
NoHit    == ~read_hit_pending /\ ~write_ack_pending
NoMiss   == ~mshr[0].valid /\ ~l2_req_valid /\ pending = <<>>

Idle == /\ cur = NoReq /\ req = NoReq
        /\ NoAnswer /\ NoHit /\ NoMiss /\ ~wb_valid

OnPort == /\ cur # NoReq /\ req = cur
          /\ NoAnswer /\ NoHit /\ NoMiss /\ ~wb_valid

Hitting == /\ cur # NoReq /\ req = NoReq
           /\ NoAnswer /\ NoMiss /\ ~wb_valid
           /\ ~cur.write /\ read_hit_pending /\ ~write_ack_pending
           /\ grabbedData = Contents(cur.block)[cur.offset]

\* The refill of a store may be writing a line back.
Acking == /\ cur # NoReq /\ req = NoReq
          /\ NoAnswer /\ NoMiss
          /\ cur.write /\ write_ack_pending /\ ~read_hit_pending

\* Not sent yet, on the way to the level below, or taken by it.
Sending ==
  \/ ~mshr[0].mem_sent /\ ~l2_req_valid /\ pending = <<>>
  \/ mshr[0].mem_sent /\ l2_req_valid /\ l2_req_addr = cur.block /\ pending = <<>>
  \/ mshr[0].mem_sent /\ ~l2_req_valid /\ pending = <<cur.block>>

Fetching == /\ cur # NoReq /\ req = NoReq
            /\ NoAnswer /\ NoHit /\ ~wb_valid
            /\ mshr[0].valid /\ mshr[0].block_addr = cur.block
            /\ mshr[0].queue = <<QueuedOp(cur)>>
            /\ Sending

\* The refill of a load may be writing a line back.
Answered == /\ cur # NoReq /\ req = NoReq
            /\ NoHit /\ NoMiss
            /\ resp_valid

Phase == Idle \/ OnPort \/ Hitting \/ Acking \/ Fetching \/ Answered

CleanLinesAgree ==
  \A w \in Ways, s \in Sets :
    lines[w][s].valid /\ ~lines[w][s].dirty =>
      lines[w][s].data = Beneath(lines[w][s].tag)

BTypeOK == cur \in Reqs /\ below \in [Blocks -> Lines] /\ ~mshr[1].valid

BInv == IInv /\ BTypeOK /\ Phase /\ CleanLinesAgree

-----------------------------------------------------------------------------
(* What is behind the cache.                                               *)

LEMMA BeneathType ==
  ASSUME TypeOK, BTypeOK, NEW b \in Blocks
  PROVE  Beneath(b) \in Lines
BY DEF TypeOK, BTypeOK, Beneath

\* While nothing is refilled, what is behind the cache stays what it is: a
\* line in the write-back register is taken by the level below.
LEMMA BeneathKept ==
  ASSUME TypeOK, BTypeOK, NEW answers \in BOOLEAN, Below(answers),
         NEW resp, WriteBack(resp), \A m \in Mshrs : ~Refilling(resp, m),
         NEW b \in Blocks
  PROVE  Beneath(b)' = Beneath(b)
<1>1. ~wb_valid' /\ wb_addr \in Blocks
  BY DEF WriteBack, TypeOK
<1>2. below' = IF wb_valid THEN [below EXCEPT ![wb_addr] = wb_data] ELSE below
  BY DEF Below
<1>3. Beneath(b)' = below'[b]
  BY <1>1 DEF Beneath
<1> QED BY <1>1, <1>2, <1>3 DEF Beneath, BTypeOK

\* One queued operation replayed over a line.
LEMMA ReplayOne ==
  ASSUME NEW line \in Lines, NEW r \in Reqs, r.valid
  PROVE  Replay(line, <<QueuedOp(r)>>) =
           IF r.write THEN [line EXCEPT ![r.offset] = r.wdata] ELSE line
<1> DEFINE q == <<QueuedOp(r)>>
<1>1. /\ r.write \in BOOLEAN /\ r.offset \in Offsets /\ r.wdata \in Words
  BY RequestType
<1>2. Len(q) = 1 /\ q[1] = QueuedOp(r)
  OBVIOUS
<1>3. /\ q[1].is_store = r.write /\ q[1].offset = r.offset
      /\ r.write => q[1].data = r.wdata
  BY <1>2 DEF QueuedOp
<1> HIDE DEF q
<1>4. \A o : StoresTo(q, o) = IF r.write /\ r.offset = o THEN {1} ELSE {}
  BY <1>2, <1>3 DEF StoresTo, Stores
<1>5. LastOf({1}) = 1
  BY DEF LastOf
<1>6. \A o \in Offsets :
        Replay(line, q)[o] = IF r.write /\ r.offset = o THEN r.wdata ELSE line[o]
  BY <1>3, <1>4, <1>5 DEF Replay
<1>7. Replay(line, q) = [o \in Offsets |-> Replay(line, q)[o]]
  BY DEF Replay
<1>8. line = [o \in Offsets |-> line[o]]
  BY DEF Lines
<1>9. CASE r.write
  <2>1. [line EXCEPT ![r.offset] = r.wdata] =
          [o \in Offsets |-> IF r.offset = o THEN r.wdata ELSE line[o]]
    BY <1>1, <1>8
  <2>2. Replay(line, q) = [o \in Offsets |-> IF r.offset = o THEN r.wdata ELSE line[o]]
    BY <1>6, <1>7, <1>9
  <2> QED BY <1>9, <2>1, <2>2 DEF q
<1>10. CASE ~r.write
  BY <1>6, <1>7, <1>8, <1>10 DEF q
<1> QED BY <1>1, <1>9, <1>10

LEMMA ContentsType ==
  ASSUME TypeOK, BTypeOK, NEW b \in Blocks
  PROVE  Contents(b) \in Lines
<1>1. SetOf[b] \in Sets /\ HitWay(b) \in Ways
  BY SetsAssumption DEF HitWay
<1>2. lines[HitWay(b)][SetOf[b]].data \in Lines
  BY <1>1 DEF TypeOK, LineRec
<1>3. \A m \in Mshrs : mshr[m].queue \in Seq(Ops)
  BY DEF TypeOK, MshrRec
<1>4. \A m \in Mshrs : Replay(Beneath(b), mshr[m].queue) \in Lines
  BY <1>3, BeneathType, ReplayType
<1> QED BY <1>2, <1>4, BeneathType DEF Contents

-----------------------------------------------------------------------------
(* The contents of the blocks over one clock edge.                         *)

\* A line is what a hit on its block reads.
LEMMA HitIsTheLine ==
  ASSUME TypeOK, OneCopyPerBlock, NEW b \in Blocks, NEW w \in Ways, HitIn(w, b)
  PROVE  lookup_hit(b) /\ HitWay(b) = w
<1>1. SetOf[b] \in Sets
  BY SetsAssumption
<1> QED BY <1>1 DEF lookup_hit, HitWay, HitIn, OneCopyPerBlock

\* An edge without refill, allocation, merge and store hit.
LEMMA QuietEdge ==
  ASSUME IInv, BTypeOK, NEW answers \in BOOLEAN, Below(answers),
         NEW r \in Reqs, NEW resp \in Lines \cup {NoLine}, Edge(r, resp),
         \A m \in Mshrs : ~Refilling(resp, m),
         ~StoreHit(r), ~Miss(r)
  PROVE  /\ \A b \in Blocks : Contents(b)' = Contents(b)
         /\ CleanLinesAgree => CleanLinesAgree'
         /\ \A m \in Mshrs : /\ mshr'[m].valid = mshr[m].valid
                             /\ mshr'[m].block_addr = mshr[m].block_addr
                             /\ mshr'[m].queue = mshr[m].queue
                             /\ mshr'[m].mem_sent = (mshr[m].mem_sent \/ Issuing(m))
<1>1. lines' = lines
  BY DEF Edge, NextLines
<1>2. \A m \in Mshrs : mshr[m] \in MshrRec
  BY DEF IInv, TypeOK
<1>3. ASSUME NEW m \in Mshrs
      PROVE  /\ mshr'[m].valid = mshr[m].valid
             /\ mshr'[m].block_addr = mshr[m].block_addr
             /\ mshr'[m].queue = mshr[m].queue
             /\ mshr'[m].mem_sent = (mshr[m].mem_sent \/ Issuing(m))
  <2>1. ~Allocates(r, m) /\ ~Merges(r, m)
    BY DEF Allocates, Merges
  <2>2. mshr'[m] = [mshr[m] EXCEPT !.mem_sent = mshr[m].mem_sent \/ Issuing(m),
                                   !.queue = mshr[m].queue]
    BY <2>1 DEF Edge, NextMshr
  <2> QED BY <1>2, <2>2 DEF MshrRec
<1>4. \A b \in Blocks : Beneath(b)' = Beneath(b)
  BY BeneathKept DEF Edge, IInv
<1>5. ASSUME NEW b \in Blocks PROVE Contents(b)' = Contents(b)
  <2>1. HitWay(b)' = HitWay(b) /\ (lookup_hit(b)' <=> lookup_hit(b))
    BY <1>1 DEF HitWay, lookup_hit, HitIn
  <2>2. \A m \in Mshrs : InMshr(m, b)' <=> InMshr(m, b)
    BY <1>3 DEF InMshr
  <2>3. \A m \in Mshrs : Replay(Beneath(b), mshr[m].queue)' = Replay(Beneath(b), mshr[m].queue)
    BY <1>3, <1>4 DEF Replay, Stores, StoresTo
  <2> QED BY <1>1, <1>4, <2>1, <2>2, <2>3 DEF Contents
<1>6. ASSUME CleanLinesAgree PROVE CleanLinesAgree'
  <2>1. \A w \in Ways, s \in Sets : lines[w][s].tag \in Blocks
    BY DEF IInv, TypeOK, LineRec
  <2> SUFFICES ASSUME NEW w \in Ways, NEW s \in Sets,
                      lines'[w][s].valid, ~lines'[w][s].dirty
               PROVE  lines'[w][s].data = Beneath(lines[w][s].tag)'
    BY DEF CleanLinesAgree
  <2>2. PICK b \in Blocks : b = lines[w][s].tag
    BY <2>1
  <2>3. Beneath(b)' = Beneath(lines[w][s].tag)'
    BY <1>1, <2>2 DEF Beneath
  <2> QED BY <1>1, <1>4, <1>6, <2>2, <2>3 DEF CleanLinesAgree
<1> QED BY <1>3, <1>5, <1>6

\* A store that hits while nothing is refilled.
LEMMA StoreEdge ==
  ASSUME IInv, BTypeOK, NEW answers \in BOOLEAN, Below(answers),
         NEW r \in Reqs, NEW resp \in Lines \cup {NoLine}, Edge(r, resp),
         ~mshr[0].valid, StoreHit(r)
  PROVE  /\ \A b \in Blocks :
              Contents(b)' = IF b = r.block
                             THEN [Contents(b) EXCEPT ![r.offset] = r.wdata]
                             ELSE Contents(b)
         /\ CleanLinesAgree => CleanLinesAgree'
         /\ \A m \in Mshrs : ~mshr'[m].valid
<1>1. \A m \in Mshrs : ~mshr[m].valid /\ ~Refilling(resp, m) /\ ~Allocates(r, m)
  BY DEF BTypeOK, Refilling, Sent, Allocates, Miss, StoreHit
<1>2. /\ r.block \in Blocks /\ r.offset \in Offsets /\ r.wdata \in Words
      /\ lookup_hit(r.block)
  BY RequestType DEF StoreHit
<1> DEFINE w == HitWay(r.block)
           s == SetOf[r.block]
           old == lines[w][s]
           new == [valid |-> TRUE, dirty |-> TRUE, tag |-> old.tag,
                   data |-> [old.data EXCEPT ![r.offset] = r.wdata]]
<1>3. w \in Ways /\ s \in Sets /\ old \in LineRec /\ HitIn(w, r.block)
      /\ old.valid /\ old.tag = r.block
  BY <1>2, SetsAssumption DEF HitWay, HitIn, lookup_hit, IInv, TypeOK
<1>4. lines' = [lines EXCEPT ![w][s] = new]
  BY <1>1 DEF Edge, NextLines
<1>5. ASSUME NEW m \in Mshrs PROVE ~mshr'[m].valid
  BY <1>1, MshrStep DEF IInv
<1>6. \A b \in Blocks : Beneath(b)' = Beneath(b)
  BY <1>1, BeneathKept DEF Edge, IInv
<1>7. lines'[w][s] = new /\ lines \in [Ways -> [Sets -> LineRec]]
  <2> HIDE DEF new, w, s
  <2> QED BY <1>3, <1>4 DEF IInv, TypeOK
<1>8. ASSUME NEW v \in Ways, NEW t \in Sets, ~(v = w /\ t = s)
      PROVE  lines'[v][t] = lines[v][t]
  <2> HIDE DEF new, w, s
  <2> QED BY <1>3, <1>4, <1>7, <1>8
<1>9. new.valid = TRUE /\ new.dirty = TRUE /\ new.tag = old.tag
      /\ new.data = [old.data EXCEPT ![r.offset] = r.wdata]
  OBVIOUS
<1> HIDE DEF new
<1>10. ASSUME NEW b \in Blocks, NEW v \in Ways
       PROVE  HitIn(v, b)' <=> HitIn(v, b)
  <2>1. SetOf[b] \in Sets
    BY SetsAssumption
  <2>2. CASE v = w /\ SetOf[b] = s
    BY <1>3, <1>7, <1>9, <2>1, <2>2 DEF HitIn
  <2>3. CASE ~(v = w /\ SetOf[b] = s)
    <3> HIDE DEF w, s
    <3> QED BY <1>8, <2>1, <2>3 DEF HitIn
  <2> QED BY <2>2, <2>3
<1>11. ASSUME NEW b \in Blocks
       PROVE  /\ HitWay(b)' = HitWay(b) /\ (lookup_hit(b)' <=> lookup_hit(b))
              /\ \A m \in Mshrs : ~InMshr(m, b) /\ ~InMshr(m, b)'
  BY <1>1, <1>5, <1>10 DEF HitWay, lookup_hit, InMshr
<1>12. Contents(r.block)' = [Contents(r.block) EXCEPT ![r.offset] = r.wdata]
  <2>1. Contents(r.block) = old.data
    BY <1>2 DEF Contents
  <2>2. Contents(r.block)' = lines'[w][s].data
    BY <1>2, <1>11 DEF Contents
  <2> QED BY <1>7, <1>9, <2>1, <2>2
<1>13. ASSUME NEW b \in Blocks, b # r.block PROVE Contents(b)' = Contents(b)
  <2>1. CASE lookup_hit(b)
    <3>1. HitIn(HitWay(b), b) /\ HitWay(b) \in Ways /\ SetOf[b] \in Sets
      BY <2>1, SetsAssumption DEF lookup_hit, HitWay
    <3>2. ~(HitWay(b) = w /\ SetOf[b] = s)
      BY <1>3, <1>13, <3>1 DEF HitIn
    <3>3. lines'[HitWay(b)][SetOf[b]] = lines[HitWay(b)][SetOf[b]]
      <4> HIDE DEF w, s
      <4> QED BY <1>8, <3>1, <3>2
    <3> QED BY <1>11, <2>1, <3>3 DEF Contents
  <2>2. CASE ~lookup_hit(b)
    BY <1>6, <1>11, <2>2 DEF Contents
  <2> QED BY <2>1, <2>2
<1>14. ASSUME CleanLinesAgree PROVE CleanLinesAgree'
  <2> SUFFICES ASSUME NEW v \in Ways, NEW t \in Sets,
                      lines'[v][t].valid, ~lines'[v][t].dirty
               PROVE  lines'[v][t].data = Beneath(lines[v][t].tag)'
    BY DEF CleanLinesAgree
  <2>1. ~(v = w /\ t = s)
    BY <1>7, <1>9
  <2>2. lines'[v][t] = lines[v][t] /\ lines[v][t] \in LineRec
    <3> HIDE DEF w, s
    <3> QED BY <1>7, <1>8, <2>1
  <2>3. PICK b \in Blocks : b = lines[v][t].tag
    BY <2>2 DEF LineRec
  <2>4. Beneath(b)' = Beneath(lines[v][t].tag)'
    BY <2>2, <2>3 DEF Beneath
  <2> QED BY <1>6, <1>14, <2>2, <2>3, <2>4 DEF CleanLinesAgree
<1> QED BY <1>5, <1>12, <1>13, <1>14

\* A miss while no MSHR is taken: it gets MSHR 0 and is alone in its queue.
LEMMA MissEdge ==
  ASSUME IInv, BTypeOK, NEW answers \in BOOLEAN, Below(answers),
         NEW r \in Reqs, NEW resp \in Lines \cup {NoLine}, Edge(r, resp),
         ~mshr[0].valid, Miss(r)
  PROVE  /\ \A b \in Blocks :
              Contents(b)' = IF r.write /\ b = r.block
                             THEN [Contents(b) EXCEPT ![r.offset] = r.wdata]
                             ELSE Contents(b)
         /\ CleanLinesAgree => CleanLinesAgree'
         /\ mshr'[0] = [valid |-> TRUE, block_addr |-> r.block,
                        mem_sent |-> FALSE, queue |-> <<QueuedOp(r)>>]
         /\ ~mshr'[1].valid
<1>1. \A m \in Mshrs : ~mshr[m].valid /\ ~Refilling(resp, m)
  BY DEF BTypeOK, Refilling, Sent
<1>2. Allocates(r, 0) /\ ~Allocates(r, 1) /\ r.valid /\ ~lookup_hit(r.block)
  BY <1>1 DEF Allocates, Miss, InMshr
<1>3. mshr'[0] = [valid |-> TRUE, block_addr |-> r.block,
                  mem_sent |-> FALSE, queue |-> <<QueuedOp(r)>>]
  BY <1>2 DEF Edge, NextMshr
<1>4. ~mshr'[1].valid
  BY <1>1, <1>2, MshrStep DEF IInv
<1>5. lines' = lines
  BY <1>1, <1>2 DEF Edge, NextLines, StoreHit
<1>6. \A b \in Blocks : Beneath(b)' = Beneath(b)
  BY <1>1, BeneathKept DEF Edge, IInv
<1>7. ASSUME NEW b \in Blocks
      PROVE  /\ HitWay(b)' = HitWay(b) /\ (lookup_hit(b)' <=> lookup_hit(b))
             /\ ~InMshr(0, b) /\ ~InMshr(1, b) /\ ~InMshr(1, b)'
             /\ (InMshr(0, b)' <=> b = r.block)
  BY <1>1, <1>3, <1>4, <1>5 DEF HitWay, lookup_hit, HitIn, InMshr
<1>8. ASSUME NEW b \in Blocks, b # r.block PROVE Contents(b)' = Contents(b)
  BY <1>5, <1>6, <1>7, <1>8 DEF Contents
<1>9. Contents(r.block)' = IF r.write
                           THEN [Contents(r.block) EXCEPT ![r.offset] = r.wdata]
                           ELSE Contents(r.block)
  <2> DEFINE b == r.block
             q == <<QueuedOp(r)>>
  <2>1. b \in Blocks
    BY <1>2, RequestType
  <2>2. Contents(b) = Beneath(b)
    BY <1>2, <1>7, <2>1 DEF Contents
  <2>3. Contents(b)' = Replay(Beneath(b), mshr[0].queue)'
    BY <1>2, <1>7, <2>1 DEF Contents
  <2>4. mshr'[0].queue = q
    BY <1>3
  <2>5. Beneath(b)' = Beneath(b)
    BY <1>6, <2>1
  <2> HIDE DEF b, q
  <2>6. Replay(Beneath(b), mshr[0].queue)' = Replay(Beneath(b), q)
    BY <2>4, <2>5 DEF Replay, Stores, StoresTo
  <2>7. Replay(Beneath(b), q) =
          IF r.write THEN [Beneath(b) EXCEPT ![r.offset] = r.wdata] ELSE Beneath(b)
    BY <1>2, <2>1, BeneathType, ReplayOne DEF IInv, q
  <2> QED BY <2>2, <2>3, <2>6, <2>7 DEF b
<1>10. ASSUME CleanLinesAgree PROVE CleanLinesAgree'
  <2> SUFFICES ASSUME NEW v \in Ways, NEW t \in Sets,
                      lines'[v][t].valid, ~lines'[v][t].dirty
               PROVE  lines'[v][t].data = Beneath(lines[v][t].tag)'
    BY DEF CleanLinesAgree
  <2>1. lines[v][t] \in LineRec
    BY DEF IInv, TypeOK
  <2>2. PICK b \in Blocks : b = lines[v][t].tag
    BY <2>1 DEF LineRec
  <2>3. Beneath(b)' = Beneath(lines[v][t].tag)'
    BY <1>5, <2>2 DEF Beneath
  <2> QED BY <1>5, <1>6, <1>10, <2>2, <2>3 DEF CleanLinesAgree
<1> QED BY <1>3, <1>4, <1>8, <1>9, <1>10

\* The refill of MSHR 0 with the line below, while nothing is written back.
LEMMA RefillEdge ==
  ASSUME IInv, BTypeOK, CleanLinesAgree, NEW answers \in BOOLEAN, Below(answers),
         NEW r \in Reqs, ~r.valid, NEW resp \in Lines, Edge(r, resp),
         Refilling(resp, 0), ~wb_valid, resp = below[mshr[0].block_addr],
         NEW c \in Reqs, c.valid, mshr[0].queue = <<QueuedOp(c)>>
  PROVE  /\ \A b \in Blocks : Contents(b)' = Contents(b)
         /\ CleanLinesAgree'
         /\ \A m \in Mshrs : ~mshr'[m].valid
<1>a. PICK a \in Blocks : a = mshr[0].block_addr
  BY RefillType DEF IInv
<1>b. PICK s \in Sets : s = SetOf[a]
  BY <1>a, SetsAssumption
<1>c. PICK w \in Ways : w = RefillWay(s)
  BY <1>a, <1>b, RefillType DEF IInv
<1>d. PICK old \in LineRec : old = lines[w][s]
  BY DEF IInv, TypeOK
<1>e. PICK q \in Seq(Ops) : q = mshr[0].queue
  BY RefillType DEF IInv
<1> DEFINE new == [valid |-> TRUE, dirty |-> Stores(q) # {}, tag |-> a,
                   data |-> Replay(resp, q)]
<1>1. mshr[0].valid /\ ~mshr[1].valid
  BY DEF Refilling, Sent, BTypeOK
<1>2. ~lookup_hit(a)
  BY <1>1, <1>a DEF IInv, MissesAreAbsent
<1>3. lines' = [lines EXCEPT ![w][s] = new]
  BY <1>a, <1>b, <1>c, <1>e DEF Edge, NextLines, StoreHit, RefilledLines
<1>4. lines'[w][s] = new /\ lines \in [Ways -> [Sets -> LineRec]]
  <2> HIDE DEF new
  <2> QED BY <1>1, <1>3 DEF IInv, TypeOK
<1>5. ASSUME NEW v \in Ways, NEW t \in Sets, ~(v = w /\ t = s)
      PROVE  lines'[v][t] = lines[v][t]
  <2> HIDE DEF new
  <2> QED BY <1>1, <1>3, <1>4, <1>5
<1>6. /\ new.valid = TRUE /\ new.dirty = (Stores(q) # {}) /\ new.tag = a
      /\ new.data = Replay(resp, q)
  OBVIOUS
<1>7. \A m \in Mshrs : ~mshr'[m].valid
  <2>1. \A m \in Mshrs : ~Allocates(r, m)
    BY DEF Allocates, Miss
  <2> QED BY <1>1, <2>1, MshrStep DEF IInv
\* What is behind the cache changes for a dirty victim only.
<1>8. /\ wb_valid' = (old.valid /\ old.dirty)
      /\ old.valid /\ old.dirty => wb_addr' = old.tag /\ wb_data' = old.data
  <2>1. (CHOOSE n \in Mshrs : Refilling(resp, n)) = 0
    BY OneRefill
  <2> QED BY <1>a, <1>b, <1>c, <1>d, <2>1 DEF Edge, WriteBack
<1>9. ASSUME NEW b \in Blocks
      PROVE  /\ Beneath(b) = below[b]
             /\ Beneath(b)' = IF old.valid /\ old.dirty /\ b = old.tag THEN old.data
                              ELSE Beneath(b)
  BY <1>8 DEF Below, Beneath, BTypeOK
<1> HIDE DEF new
<1>10. ASSUME NEW b \in Blocks
       PROVE  ~InMshr(0, b)' /\ ~InMshr(1, b)' /\ ~InMshr(1, b)
              /\ (InMshr(0, b) <=> b = a)
  BY <1>1, <1>7, <1>a DEF InMshr
\* The block of the miss.
<1>11. HitIn(w, a)'
  BY <1>4, <1>6, <1>b DEF HitIn
<1>13. lookup_hit(a)' /\ HitWay(a)' = w
  <2>1. \A v \in Ways : HitIn(v, a)' => v = w
    BY <1>2, <1>5, <1>b DEF lookup_hit, HitIn
  <2> QED BY <1>11, <2>1, <1>1 DEF lookup_hit, HitWay
<1>14. Contents(a)' = Contents(a)
  <2>1. Contents(a)' = lines'[w][s].data
    BY <1>13, <1>b DEF Contents
  <2>2. Contents(a) = Replay(Beneath(a), q)
    BY <1>2, <1>10, <1>e DEF Contents
  <2>3. Beneath(a) = resp
    BY <1>a, <1>9
  <2> QED BY <1>4, <1>6, <2>1, <2>2, <2>3
\* The victim.
<1>15. ASSUME old.valid PROVE Contents(old.tag)' = Contents(old.tag)
  <2>0. PICK b \in Blocks : b = old.tag
    BY DEF LineRec
  <2>1. SetOf[b] = s
    BY <1>d, <2>0 DEF IInv, LinesInTheirSet
  <2>2. HitIn(w, b) /\ b # a
    BY <1>2, <1>15, <1>d, <2>0, <2>1 DEF lookup_hit, HitIn
  <2>3. Contents(b) = old.data
    BY <1>d, <2>1, <2>2, HitIsTheLine DEF IInv, Contents
  <2>4. ~lookup_hit(b)'
    <3> SUFFICES ASSUME NEW v \in Ways, HitIn(v, b)' PROVE FALSE
      BY DEF lookup_hit
    <3>1. v # w
      BY <1>4, <1>6, <2>1, <2>2 DEF HitIn
    <3>2. HitIn(v, b)
      BY <1>5, <2>1, <3>1 DEF HitIn
    <3> QED BY <1>1, <2>1, <2>2, <3>1, <3>2 DEF IInv, OneCopyPerBlock, HitIn
  <2>5. Contents(b)' = Beneath(b)'
    BY <1>10, <2>2, <2>4 DEF Contents
  <2>6. Beneath(b)' = old.data
    <3>1. CASE old.dirty
      BY <1>9, <1>15, <2>0, <3>1
    <3>2. CASE ~old.dirty
      BY <1>d, <1>9, <1>15, <2>0, <3>2 DEF CleanLinesAgree
    <3> QED BY <3>1, <3>2
  <2> QED BY <2>0, <2>3, <2>5, <2>6
\* Every other block.
<1>16. ASSUME NEW b \in Blocks, b # a, ~(old.valid /\ b = old.tag)
       PROVE  Contents(b)' = Contents(b)
  <2>1. SetOf[b] \in Sets
    BY SetsAssumption
  <2>2. ASSUME NEW v \in Ways PROVE HitIn(v, b)' <=> HitIn(v, b)
    <3>1. CASE v = w /\ SetOf[b] = s
      BY <1>4, <1>6, <1>16, <1>d, <3>1 DEF HitIn
    <3>2. CASE ~(v = w /\ SetOf[b] = s)
      <4> QED BY <1>5, <2>1, <3>2 DEF HitIn
    <3> QED BY <3>1, <3>2
  <2>3. HitWay(b)' = HitWay(b) /\ (lookup_hit(b)' <=> lookup_hit(b))
    BY <2>2 DEF HitWay, lookup_hit
  <2>4. CASE lookup_hit(b)
    <3>1. HitIn(HitWay(b), b) /\ HitWay(b) \in Ways
      BY <2>4 DEF lookup_hit, HitWay
    <3>2. ~(HitWay(b) = w /\ SetOf[b] = s)
      BY <1>16, <1>d, <3>1 DEF HitIn
    <3>3. lines'[HitWay(b)][SetOf[b]] = lines[HitWay(b)][SetOf[b]]
      <4> QED BY <1>5, <2>1, <3>1, <3>2
    <3> QED BY <2>3, <2>4, <3>3 DEF Contents
  <2>5. CASE ~lookup_hit(b)
    <3>1. Contents(b)' = Beneath(b)' /\ Contents(b) = Beneath(b)
      BY <1>10, <1>16, <2>3, <2>5 DEF Contents
    <3> QED BY <1>9, <1>16, <3>1
  <2> QED BY <2>4, <2>5
<1>17. CleanLinesAgree'
  <2> SUFFICES ASSUME NEW v \in Ways, NEW t \in Sets,
                      lines'[v][t].valid, ~lines'[v][t].dirty
               PROVE  lines'[v][t].data = Beneath(lines[v][t].tag)'
    BY DEF CleanLinesAgree
  <2>1. CASE v = w /\ t = s
    <3>1. Stores(q) = {}
      BY <1>4, <1>6, <2>1
    <3>2. lines'[v][t].data = Replay(resp, q) /\ lines'[v][t].tag = a
      BY <1>4, <1>6, <2>1
    <3>3. ~c.write
      <4>1. Len(q) = 1 /\ q[1] = QueuedOp(c)
        BY <1>e
      <4> QED BY <3>1, <4>1 DEF Stores, QueuedOp
    <3>4. Replay(resp, q) = resp
      BY <1>e, <3>3, ReplayOne
    <3>5. Beneath(a)' = Beneath(a) /\ Beneath(a) = resp
      <4>1. ~(old.valid /\ a = old.tag)
        BY <1>2, <1>b, <1>d DEF lookup_hit, HitIn
      <4> QED BY <1>a, <1>9, <4>1
    <3>6. Beneath(a)' = Beneath(lines[v][t].tag)'
      BY <3>2 DEF Beneath
    <3> QED BY <3>2, <3>4, <3>5, <3>6
  <2>2. CASE ~(v = w /\ t = s)
    <3>1. lines'[v][t] = lines[v][t] /\ lines[v][t] \in LineRec
      <4> QED BY <1>4, <1>5, <2>2 DEF IInv, TypeOK
    <3>2. PICK b \in Blocks : b = lines[v][t].tag
      BY <3>1 DEF LineRec
    <3>3. Beneath(b)' = Beneath(lines[v][t].tag)'
      BY <3>1, <3>2 DEF Beneath
    <3>4. lines[v][t].data = Beneath(b)
      BY <3>1, <3>2 DEF CleanLinesAgree
    <3>5. ~(old.valid /\ b = old.tag)
      <4>1. SetOf[b] = t /\ (old.valid => SetOf[old.tag] = s)
        BY <1>d, <3>2 DEF IInv, LinesInTheirSet
      <4>2. t = s => v # w
        BY <2>2
      <4> QED BY <1>d, <3>1, <3>2, <4>1, <4>2 DEF IInv, OneCopyPerBlock
    <3> QED BY <1>9, <3>1, <3>3, <3>4, <3>5
  <2> QED BY <2>1, <2>2
<1> QED BY <1>7, <1>14, <1>15, <1>16, <1>17

-----------------------------------------------------------------------------
(* The port and the registers over one step.                               *)

LEMMA NoReqIsNone ==
  /\ NoReq \in Reqs /\ ~NoReq.valid
  /\ \A r \in Reqs : r # NoReq => r.valid
BY DEF Reqs, NoReq

\* The line the level below returns in a step.
Returned(answers) == IF answers THEN below[pending[1]] ELSE NoLine

LEMMA StepTypes ==
  ASSUME BInv, NEW answers \in BOOLEAN, Step(answers)
  PROVE  /\ req \in Reqs /\ Returned(answers) \in Lines \cup {NoLine}
         /\ Below(answers) /\ Edge(req, Returned(answers))
         /\ IInv' /\ cur' \in Reqs /\ below' \in [Blocks -> Lines]
         /\ cur # NoReq => cur.valid /\ cur.block \in Blocks
<1>1. req \in Reqs
  BY NoReqIsNone DEF BInv, BTypeOK, Phase, Idle, OnPort, Hitting, Acking,
                     Fetching, Answered
<1>2. cur # NoReq => cur.valid /\ cur.block \in Blocks
  BY NoReqIsNone, RequestType DEF BInv, BTypeOK
<1>3. pending = <<>> \/ (cur # NoReq /\ pending = <<cur.block>>)
  BY DEF BInv, Phase, Idle, OnPort, Hitting, Acking, Fetching, Sending,
         Answered, NoMiss
<1>4. answers => cur # NoReq /\ pending[1] = cur.block
  BY <1>3 DEF Step, Below
<1>5. Returned(answers) \in Lines \cup {NoLine}
  BY <1>2, <1>4 DEF Returned, BInv, BTypeOK
<1>6. Edge(req, Returned(answers)) /\ Below(answers)
  BY DEF Step, Returned
<1>7. IInv'
  BY <1>1, <1>5, <1>6, EdgeIInv DEF BInv
<1>8. cur' \in Reqs
  BY NoReqIsNone DEF Step, Waits, Issues, BInv, BTypeOK
<1>9. below' \in [Blocks -> Lines]
  BY DEF Step, Below, BInv, BTypeOK, IInv, TypeOK
<1> QED BY <1>1, <1>2, <1>5, <1>6, <1>7, <1>8, <1>9

\* The registers after an edge without request and without refill.
LEMMA QuietRegisters ==
  ASSUME ~mshr[1].valid, NEW r, NEW resp, Edge(r, resp), ~r.valid,
         \A m \in Mshrs : ~Refilling(resp, m)
  PROVE  /\ NoHit' /\ refill_resp_valid' = FALSE /\ wb_valid' = FALSE
         /\ resp_valid_read_hit' = read_hit_pending
         /\ resp_valid_write' = write_ack_pending
         /\ grabbedData' = grabbedData
         /\ l2_req_valid' <=> Unsent(0)
         /\ Unsent(0) => l2_req_addr' = mshr[0].block_addr
BY DEF Edge, Issue, Issuing, Unsent, WriteBack, RefillAnswer, RefillAck,
       LoadHit, StoreHit, NoHit

-----------------------------------------------------------------------------
(* The memory of words over one step.                                      *)

LEMMA StoredType ==
  ASSUME TypeOK, BTypeOK, req \in Reqs, NEW b \in Blocks
  PROVE  Stored(b) \in Lines
<1>1. Contents(b) \in Lines
  BY ContentsType
<1>2. ASSUME req.valid PROVE req.offset \in Offsets /\ req.wdata \in Words
  BY <1>2, RequestType
<1> QED BY <1>1, <1>2 DEF Stored, Lines

\* Without a request on the port what is stored is what is in the cache.
LEMMA NothingOnPort ==
  ASSUME req = NoReq, NEW b
  PROVE  Stored(b) = Contents(b)
BY NoReqIsNone DEF Stored

\* The requester waits: no store is added.
LEMMA WaitingStores ==
  ASSUME req = NoReq, Waits, \A b \in Blocks : Contents(b)' = Contents(b)
  PROVE  \A b \in Blocks : Stored(b)' = Stored(b)
<1> SUFFICES ASSUME NEW b \in Blocks PROVE Stored(b)' = Stored(b)
  OBVIOUS
<1>1. Stored(b)' = Contents(b)'
  BY NoReqIsNone DEF Waits, Stored
<1> QED BY <1>1, NothingOnPort

\* The requester issues: the memory takes the request.
LEMMA IssuingAccepts ==
  ASSUME TypeOK, BTypeOK, req = NoReq, NEW r \in Reqs \ {NoReq}, Issues(r),
         \A b \in Blocks : Contents(b)' = Contents(b),
         NoAnswer'
  PROVE  WM!Accept(r)
<1>1. r.valid /\ r.write \in BOOLEAN /\ r.block \in Blocks /\ r.offset \in Offsets
  BY NoReqIsNone, RequestType
<1>2. \A b \in Blocks : Stored(b) = Contents(b) /\ Contents(b) \in Lines
  BY NothingOnPort, ContentsType
<1>3. ASSUME NEW b \in Blocks
      PROVE  Stored(b)' = IF r.write /\ r.block = b
                          THEN [Stored(b) EXCEPT ![r.offset] = r.wdata]
                          ELSE Stored(b)
  <2>1. Stored(b)' = IF r.write /\ r.block = b
                     THEN [Contents(b)' EXCEPT ![r.offset] = r.wdata]
                     ELSE Contents(b)'
    BY <1>1 DEF Stored, Issues
  <2> QED BY <1>2, <2>1
<1> DEFINE mem == [b \in Blocks |-> Stored(b)]
<1>4. mem' = IF r.write THEN [mem EXCEPT ![r.block][r.offset] = r.wdata] ELSE mem
  <2>1. mem' = [b \in Blocks |-> IF r.write /\ r.block = b
                                 THEN [Stored(b) EXCEPT ![r.offset] = r.wdata]
                                 ELSE Stored(b)]
    BY <1>3
  <2>2. CASE r.write
    BY <1>1, <2>1, <2>2
  <2>3. CASE ~r.write
    BY <2>1, <2>3
  <2> QED BY <1>1, <2>2, <2>3
<1>5. /\ ~resp_valid' /\ ~resp_is_load'
  BY DEF NoAnswer, resp_valid, resp_is_load
<1>6. resp_valid' = FALSE /\ resp_is_load' = FALSE
  BY DEF NoAnswer, resp_valid, resp_is_load
<1>7. WM!NoAnswer
  BY <1>6 DEF WM!NoAnswer
<1> QED BY <1>4, <1>7 DEF WM!Accept, Issues

\* Nothing a requester sees.
LEMMA SilentStep ==
  ASSUME NoAnswer, NoAnswer', cur' = cur,
         \A b \in Blocks : Stored(b)' = Stored(b)
  PROVE  UNCHANGED WM!wmVars
<1>1. /\ resp_valid = FALSE /\ resp_valid' = FALSE
      /\ resp_is_load = FALSE /\ resp_is_load' = FALSE
  BY DEF NoAnswer, resp_valid, resp_is_load
<1>2. [b \in Blocks |-> Stored(b)]' = [b \in Blocks |-> Stored(b)]
  OBVIOUS
<1> QED BY <1>1, <1>2 DEF WM!wmVars

\* The answer of the right kind, and for a load with the word stored.
LEMMA AnswerStep ==
  ASSUME NoAnswer, cur' = cur, cur # NoReq, cur.write \in BOOLEAN,
         cur.block \in Blocks,
         \A b \in Blocks : Stored(b)' = Stored(b),
         resp_valid', resp_is_load' <=> ~cur.write,
         ~cur.write => resp_rdata' = Stored(cur.block)[cur.offset]
  PROVE  WM!Answer
<1>1. /\ resp_valid = FALSE /\ resp_valid' = TRUE
      /\ resp_is_load' = ~cur.write
  BY DEF NoAnswer, resp_valid, resp_is_load
<1>2. [b \in Blocks |-> Stored(b)]' = [b \in Blocks |-> Stored(b)]
  OBVIOUS
<1>3. [b \in Blocks |-> Stored(b)][cur.block] = Stored(cur.block)
  OBVIOUS
<1>4. (IF resp_is_load THEN resp_rdata ELSE ZeroWord)' =
        IF cur.write THEN ZeroWord ELSE Stored(cur.block)[cur.offset]
  BY <1>1
<1> QED BY <1>1, <1>2, <1>3, <1>4 DEF WM!Answer

-----------------------------------------------------------------------------
(***************************************************************************)
(* The step from each phase: the invariant again, and a step of the        *)
(* abstract memory or none.                                                *)
(***************************************************************************)
WMStep == [WM!WMNext]_WM!wmVars

LEMMA QuietStep ==
  ASSUME BInv, NEW answers \in BOOLEAN, Step(answers), req = NoReq,
         \A m \in Mshrs : ~Refilling(Returned(answers), m)
  PROVE  /\ \A b \in Blocks : Contents(b)' = Contents(b)
         /\ IInv' /\ BTypeOK' /\ CleanLinesAgree'
         /\ NoHit' /\ refill_resp_valid' = FALSE /\ wb_valid' = FALSE
         /\ resp_valid_read_hit' = read_hit_pending
         /\ resp_valid_write' = write_ack_pending
         /\ grabbedData' = grabbedData
         /\ l2_req_valid' <=> Unsent(0)
         /\ Unsent(0) => l2_req_addr' = mshr[0].block_addr
         /\ mshr'[0].valid = mshr[0].valid
         /\ mshr'[0].block_addr = mshr[0].block_addr
         /\ mshr'[0].queue = mshr[0].queue
         /\ mshr'[0].mem_sent = (mshr[0].mem_sent \/ Issuing(0))
<1>1. ~req.valid /\ ~StoreHit(req) /\ ~Miss(req)
  BY NoReqIsNone DEF StoreHit, Miss
<1>2. /\ req \in Reqs /\ Returned(answers) \in Lines \cup {NoLine}
      /\ Below(answers) /\ Edge(req, Returned(answers))
      /\ IInv' /\ cur' \in Reqs /\ below' \in [Blocks -> Lines]
  BY StepTypes
<1>3. IInv /\ BTypeOK /\ CleanLinesAgree /\ ~mshr[1].valid
  BY DEF BInv, BTypeOK
<1>4. /\ \A b \in Blocks : Contents(b)' = Contents(b)
      /\ CleanLinesAgree => CleanLinesAgree'
      /\ \A m \in Mshrs : /\ mshr'[m].valid = mshr[m].valid
                          /\ mshr'[m].block_addr = mshr[m].block_addr
                          /\ mshr'[m].queue = mshr[m].queue
                          /\ mshr'[m].mem_sent = (mshr[m].mem_sent \/ Issuing(m))
  BY <1>1, <1>2, <1>3, QuietEdge
<1>5. /\ NoHit' /\ refill_resp_valid' = FALSE /\ wb_valid' = FALSE
      /\ resp_valid_read_hit' = read_hit_pending
      /\ resp_valid_write' = write_ack_pending
      /\ grabbedData' = grabbedData
      /\ l2_req_valid' <=> Unsent(0)
      /\ Unsent(0) => l2_req_addr' = mshr[0].block_addr
  BY <1>1, <1>2, <1>3, QuietRegisters
<1>6. BTypeOK'
  BY <1>2, <1>3, <1>4 DEF BTypeOK
<1> QED BY <1>2, <1>3, <1>4, <1>5, <1>6

\* With no miss recorded nothing is refilled and none is sent.
LEMMA NoMissStep ==
  ASSUME BInv, NoMiss, NEW answers \in BOOLEAN, Step(answers)
  PROVE  /\ \A m \in Mshrs : ~Refilling(Returned(answers), m)
         /\ ~Unsent(0) /\ pending' = <<>> /\ answers = FALSE
BY DEF NoMiss, BInv, BTypeOK, Refilling, Sent, Unsent, Step, Below

LEMMA FromIdle ==
  ASSUME BInv, Idle, NEW answers \in BOOLEAN, Step(answers)
  PROVE  BInv' /\ WMStep
<1>1. NoMiss /\ NoAnswer /\ NoHit /\ req = NoReq /\ cur = NoReq
  BY DEF Idle
<1>2. /\ \A m \in Mshrs : ~Refilling(Returned(answers), m)
      /\ ~Unsent(0) /\ pending' = <<>>
  BY <1>1, NoMissStep
<1>3. /\ \A b \in Blocks : Contents(b)' = Contents(b)
      /\ IInv' /\ BTypeOK' /\ CleanLinesAgree'
      /\ NoHit' /\ wb_valid' = FALSE /\ NoAnswer' /\ NoMiss'
  BY <1>1, <1>2, QuietStep DEF NoMiss, NoAnswer, NoHit
<1>4. ~resp_valid
  BY <1>1 DEF NoAnswer, resp_valid
<1>5. CASE Waits
  <2>1. Idle'
    BY <1>1, <1>3, <1>4, <1>5 DEF Idle, Waits
  <2>2. UNCHANGED WM!wmVars
    BY <1>1, <1>3, <1>4, <1>5, WaitingStores, SilentStep DEF Waits
  <2> QED BY <1>3, <2>1, <2>2 DEF BInv, Phase, WMStep
<1>6. CASE \E r \in Reqs \ {NoReq} : Issues(r)
  <2>1. PICK r \in Reqs \ {NoReq} : Issues(r)
    BY <1>6
  <2>2. OnPort'
    BY <1>3, <2>1 DEF OnPort, Issues
  <2>3. WM!Accept(r)
    BY <1>1, <1>3, <2>1, IssuingAccepts DEF BInv, IInv
  <2>4. WM!WMNext
    BY <2>3 DEF WM!WMNext
  <2> QED BY <1>3, <2>2, <2>4 DEF BInv, Phase, WMStep
<1> QED BY <1>5, <1>6 DEF Step

LEMMA FromAnswered ==
  ASSUME BInv, Answered, NEW answers \in BOOLEAN, Step(answers)
  PROVE  BInv' /\ WMStep
<1>1. NoMiss /\ NoHit /\ req = NoReq /\ cur # NoReq /\ resp_valid
  BY DEF Answered
<1>2. /\ \A m \in Mshrs : ~Refilling(Returned(answers), m)
      /\ ~Unsent(0) /\ pending' = <<>>
  BY <1>1, NoMissStep
<1>3. /\ \A b \in Blocks : Contents(b)' = Contents(b)
      /\ IInv' /\ BTypeOK' /\ CleanLinesAgree'
      /\ NoHit' /\ wb_valid' = FALSE /\ NoAnswer' /\ NoMiss'
  BY <1>1, <1>2, QuietStep DEF NoMiss, NoAnswer, NoHit
<1>4. CASE Waits
  <2>1. Idle'
    BY <1>1, <1>3, <1>4 DEF Idle, Waits
  <2>2. [b \in Blocks |-> Stored(b)]' = [b \in Blocks |-> Stored(b)]
    BY <1>1, <1>3, <1>4, WaitingStores
  <2>3. resp_valid' = FALSE /\ resp_is_load' = FALSE
    BY <1>3 DEF NoAnswer, resp_valid, resp_is_load
  <2>4. WM!Release
    BY <1>1, <1>4, <2>2, <2>3 DEF WM!Release, WM!NoAnswer, Waits
  <2>5. WM!WMNext
    BY <2>4 DEF WM!WMNext
  <2> QED BY <1>3, <2>1, <2>5 DEF BInv, Phase, WMStep
<1>5. CASE \E r \in Reqs \ {NoReq} : Issues(r)
  <2>1. PICK r \in Reqs \ {NoReq} : Issues(r)
    BY <1>5
  <2>2. OnPort'
    BY <1>3, <2>1 DEF OnPort, Issues
  <2>3. WM!Accept(r)
    BY <1>1, <1>3, <2>1, IssuingAccepts DEF BInv, IInv
  <2>4. WM!WMNext
    BY <2>3 DEF WM!WMNext
  <2> QED BY <1>3, <2>2, <2>4 DEF BInv, Phase, WMStep
<1> QED BY <1>4, <1>5 DEF Step

\* Until it is answered the requester waits.
LEMMA MustWait ==
  ASSUME cur # NoReq, NoAnswer, NEW answers \in BOOLEAN, Step(answers)
  PROVE  Waits /\ cur' = cur /\ req' = NoReq
BY DEF NoAnswer, resp_valid, Step, Issues, Waits

LEMMA FromHitting ==
  ASSUME BInv, Hitting, NEW answers \in BOOLEAN, Step(answers)
  PROVE  BInv' /\ WMStep
<1>1. /\ NoMiss /\ NoAnswer /\ req = NoReq /\ cur # NoReq
      /\ ~cur.write /\ read_hit_pending /\ ~write_ack_pending
      /\ grabbedData = Contents(cur.block)[cur.offset]
  BY DEF Hitting
<1>2. /\ \A m \in Mshrs : ~Refilling(Returned(answers), m)
      /\ ~Unsent(0) /\ pending' = <<>>
  BY <1>1, NoMissStep
<1>3. /\ \A b \in Blocks : Contents(b)' = Contents(b)
      /\ IInv' /\ BTypeOK' /\ CleanLinesAgree'
      /\ NoHit' /\ NoMiss'
      /\ resp_valid_read_hit' /\ ~refill_resp_valid'
      /\ grabbedData' = Contents(cur.block)[cur.offset]
  BY <1>1, <1>2, QuietStep DEF NoMiss
<1>4. Waits /\ cur' = cur /\ req' = NoReq
  BY <1>1, MustWait
<1>5. Answered'
  BY <1>1, <1>3, <1>4 DEF Answered, resp_valid
<1>6. cur.block \in Blocks /\ cur.write \in BOOLEAN
  BY <1>1, StepTypes, RequestType DEF BInv, BTypeOK
<1>7. \A b \in Blocks : Stored(b)' = Stored(b)
  BY <1>1, <1>3, <1>4, WaitingStores
<1>8. resp_valid' /\ resp_is_load' /\ resp_rdata' = Stored(cur.block)[cur.offset]
  BY <1>1, <1>3, NothingOnPort DEF resp_valid, resp_is_load, resp_rdata
<1>9. WM!WMNext
  BY <1>1, <1>4, <1>6, <1>7, <1>8, AnswerStep DEF WM!WMNext
<1> QED BY <1>3, <1>5, <1>9 DEF BInv, Phase, WMStep

LEMMA FromAcking ==
  ASSUME BInv, Acking, NEW answers \in BOOLEAN, Step(answers)
  PROVE  BInv' /\ WMStep
<1>1. /\ NoMiss /\ NoAnswer /\ req = NoReq /\ cur # NoReq
      /\ cur.write /\ ~read_hit_pending /\ write_ack_pending
  BY DEF Acking
<1>2. /\ \A m \in Mshrs : ~Refilling(Returned(answers), m)
      /\ ~Unsent(0) /\ pending' = <<>>
  BY <1>1, NoMissStep
<1>3. /\ \A b \in Blocks : Contents(b)' = Contents(b)
      /\ IInv' /\ BTypeOK' /\ CleanLinesAgree'
      /\ NoHit' /\ NoMiss'
      /\ ~resp_valid_read_hit' /\ ~refill_resp_valid' /\ resp_valid_write'
  BY <1>1, <1>2, QuietStep DEF NoMiss
<1>4. Waits /\ cur' = cur /\ req' = NoReq
  BY <1>1, MustWait
<1>5. Answered'
  BY <1>1, <1>3, <1>4 DEF Answered, resp_valid
<1>6. cur.block \in Blocks /\ cur.write \in BOOLEAN
  BY <1>1, StepTypes, RequestType DEF BInv, BTypeOK
<1>7. \A b \in Blocks : Stored(b)' = Stored(b)
  BY <1>1, <1>3, <1>4, WaitingStores
<1>8. resp_valid' /\ ~resp_is_load'
  BY <1>1, <1>3 DEF resp_valid, resp_is_load
<1>9. WM!WMNext
  BY <1>1, <1>4, <1>6, <1>7, <1>8, AnswerStep DEF WM!WMNext
<1> QED BY <1>3, <1>5, <1>9 DEF BInv, Phase, WMStep

\* The request is on the port: it hits, or takes MSHR 0.
LEMMA FromOnPort ==
  ASSUME BInv, OnPort, NEW answers \in BOOLEAN, Step(answers)
  PROVE  BInv' /\ WMStep
<1>1. PICK r \in Reqs : r = cur /\ r = req
  BY DEF OnPort, BInv, BTypeOK
<1>2. /\ NoMiss /\ NoAnswer /\ NoHit /\ cur # NoReq /\ r.valid
      /\ r.block \in Blocks /\ r.write \in BOOLEAN
  BY <1>1, NoReqIsNone, RequestType DEF OnPort
<1>3. /\ \A m \in Mshrs : ~Refilling(Returned(answers), m)
      /\ ~Unsent(0) /\ pending' = <<>>
  BY <1>2, NoMissStep
<1>4. Waits /\ cur' = r /\ req' = NoReq
  BY <1>1, <1>2, MustWait
<1>5. /\ Returned(answers) \in Lines \cup {NoLine}
      /\ Below(answers) /\ Edge(r, Returned(answers))
      /\ IInv' /\ cur' \in Reqs /\ below' \in [Blocks -> Lines]
  BY <1>1, StepTypes
<1>6. IInv /\ BTypeOK /\ CleanLinesAgree /\ ~mshr[0].valid /\ ~mshr[1].valid
  BY <1>2 DEF BInv, BTypeOK, NoMiss
<1>7. /\ resp_valid_read_hit' = read_hit_pending
      /\ resp_valid_write' = write_ack_pending
      /\ read_hit_pending' <=> LoadHit(r)
      /\ write_ack_pending' <=> StoreHit(r)
      /\ wb_valid' = FALSE /\ refill_resp_valid' = FALSE
      /\ ~l2_req_valid'
  BY <1>3, <1>5, <1>6 DEF Edge, RefillAck, WriteBack, RefillAnswer, Issue, Issuing,
                          Unsent
<1>8. NoAnswer'
  BY <1>2, <1>7 DEF NoAnswer, NoHit
\* The store counted from the moment it was on the port.
<1>9. ASSUME NEW b \in Blocks
      PROVE  Stored(b) = IF r.write /\ b = r.block
                         THEN [Contents(b) EXCEPT ![r.offset] = r.wdata]
                         ELSE Contents(b)
  BY <1>1, <1>2 DEF Stored
<1>10. ASSUME NEW b \in Blocks PROVE Stored(b)' = Contents(b)'
  BY <1>4, NoReqIsNone DEF Stored
<1>11. ASSUME \A b \in Blocks : Stored(b)' = Stored(b) PROVE WMStep
  BY <1>1, <1>2, <1>4, <1>8, <1>11, SilentStep DEF WMStep
<1>12. CASE LoadHit(r)
  <2>1. ~StoreHit(r) /\ ~Miss(r) /\ ~r.write /\ lookup_hit(r.block)
    BY <1>12 DEF LoadHit, StoreHit, Miss
  <2>2. /\ \A b \in Blocks : Contents(b)' = Contents(b)
        /\ CleanLinesAgree'
        /\ \A m \in Mshrs : mshr'[m].valid = mshr[m].valid
    BY <1>3, <1>5, <1>6, <2>1, QuietEdge
  <2>3. \A b \in Blocks : Stored(b)' = Stored(b)
    BY <1>9, <1>10, <2>1, <2>2
  <2>4. grabbedData' = Contents(r.block)[r.offset]
    <3>1. grabbedData' = lines[HitWay(r.block)][SetOf[r.block]].data[r.offset]
      BY <1>5, <1>12 DEF Edge
    <3> QED BY <2>1, <3>1 DEF Contents
  <2>5. grabbedData' = (Contents(cur.block)[cur.offset])'
    <3>1. Contents(r.block)' = Contents(cur.block)'
      BY <1>4 DEF Contents, lookup_hit, HitIn, HitWay, InMshr, Beneath
    <3> QED BY <1>2, <1>4, <2>2, <2>4, <3>1
  <2>6. Hitting'
    BY <1>1, <1>2, <1>3, <1>4, <1>6, <1>7, <1>8, <1>12, <2>1, <2>2, <2>5
       DEF Hitting, NoMiss
  <2>7. BTypeOK'
    BY <1>5, <1>6, <2>2 DEF BTypeOK
  <2> QED BY <1>5, <1>11, <2>2, <2>3, <2>6, <2>7 DEF BInv, Phase
<1>13. CASE StoreHit(r)
  <2>1. ~LoadHit(r) /\ r.write
    BY <1>13 DEF LoadHit, StoreHit
  <2>2. /\ \A b \in Blocks :
             Contents(b)' = IF b = r.block
                            THEN [Contents(b) EXCEPT ![r.offset] = r.wdata]
                            ELSE Contents(b)
        /\ CleanLinesAgree'
        /\ \A m \in Mshrs : ~mshr'[m].valid
    BY <1>5, <1>6, <1>13, StoreEdge
  <2>3. \A b \in Blocks : Stored(b)' = Stored(b)
    BY <1>9, <1>10, <2>1, <2>2
  <2>4. Acking'
    BY <1>1, <1>2, <1>3, <1>4, <1>7, <1>8, <1>13, <2>1, <2>2 DEF Acking, NoMiss
  <2>5. BTypeOK'
    BY <1>5, <2>2 DEF BTypeOK
  <2> QED BY <1>5, <1>11, <2>2, <2>3, <2>4, <2>5 DEF BInv, Phase
<1>14. CASE Miss(r)
  <2>1. ~LoadHit(r) /\ ~StoreHit(r)
    BY <1>14 DEF LoadHit, StoreHit, Miss
  <2>2. /\ \A b \in Blocks :
             Contents(b)' = IF r.write /\ b = r.block
                            THEN [Contents(b) EXCEPT ![r.offset] = r.wdata]
                            ELSE Contents(b)
        /\ CleanLinesAgree'
        /\ mshr'[0] = [valid |-> TRUE, block_addr |-> r.block,
                       mem_sent |-> FALSE, queue |-> <<QueuedOp(r)>>]
        /\ ~mshr'[1].valid
    BY <1>5, <1>6, <1>14, MissEdge
  <2>3. \A b \in Blocks : Stored(b)' = Stored(b)
    BY <1>9, <1>10, <2>2
  <2>4. /\ mshr'[0].valid /\ mshr'[0].block_addr = r.block
        /\ ~mshr'[0].mem_sent /\ mshr'[0].queue = <<QueuedOp(r)>>
    BY <2>2
  <2>5. Fetching'
    <3>1. QueuedOp(cur)' = QueuedOp(r)
      BY <1>4 DEF QueuedOp
    <3>2. Sending'
      BY <1>3, <1>7, <2>4 DEF Sending
    <3> QED BY <1>1, <1>2, <1>4, <1>7, <1>8, <2>1, <2>4, <3>1, <3>2 DEF Fetching, NoHit
  <2>6. BTypeOK'
    BY <1>5, <2>2 DEF BTypeOK
  <2> QED BY <1>5, <1>11, <2>2, <2>3, <2>5, <2>6 DEF BInv, Phase
<1> QED BY <1>2, <1>12, <1>13, <1>14 DEF LoadHit, StoreHit, Miss

\* The request is in MSHR 0: on its way, or answered by the refill.
LEMMA FromFetching ==
  ASSUME BInv, Fetching, NEW answers \in BOOLEAN, Step(answers)
  PROVE  BInv' /\ WMStep
<1>1. PICK c \in Reqs : c = cur
  BY DEF BInv, BTypeOK
<1>2. /\ NoAnswer /\ NoHit /\ req = NoReq /\ cur # NoReq /\ ~wb_valid
      /\ mshr[0].valid /\ mshr[0].block_addr = c.block
      /\ mshr[0].queue = <<QueuedOp(c)>> /\ Sending
      /\ c.valid /\ c.write \in BOOLEAN
      /\ c.block \in Blocks /\ c.offset \in Offsets
  BY <1>1, NoReqIsNone, RequestType DEF Fetching
<1>3. Waits /\ cur' = c /\ req' = NoReq
  BY <1>1, <1>2, MustWait
<1>4. /\ req \in Reqs /\ Returned(answers) \in Lines \cup {NoLine}
      /\ Below(answers) /\ Edge(req, Returned(answers))
      /\ IInv' /\ cur' \in Reqs /\ below' \in [Blocks -> Lines]
  BY StepTypes
<1>5. IInv /\ BTypeOK /\ CleanLinesAgree /\ ~mshr[1].valid /\ mshr[0] \in MshrRec
  BY DEF BInv, BTypeOK, IInv, TypeOK
<1>6. CASE ~answers
  <2>1. \A m \in Mshrs : ~Refilling(Returned(answers), m)
    BY <1>6 DEF Refilling, Returned
  <2>2. /\ \A b \in Blocks : Contents(b)' = Contents(b)
        /\ IInv' /\ BTypeOK' /\ CleanLinesAgree'
        /\ NoHit' /\ NoAnswer' /\ wb_valid' = FALSE
        /\ l2_req_valid' <=> Unsent(0)
        /\ Unsent(0) => l2_req_addr' = mshr[0].block_addr
        /\ mshr'[0].valid = mshr[0].valid
        /\ mshr'[0].block_addr = mshr[0].block_addr
        /\ mshr'[0].queue = mshr[0].queue
        /\ mshr'[0].mem_sent = (mshr[0].mem_sent \/ Issuing(0))
    BY <1>2, <2>1, QuietStep DEF NoAnswer, NoHit
  <2>3. \A b \in Blocks : Stored(b)' = Stored(b)
    BY <1>2, <1>3, <2>2, WaitingStores
  <2>4. Sending'
    <3>1. pending' = IF l2_req_valid THEN Append(pending, l2_req_addr) ELSE pending
      BY <1>4, <1>6 DEF Below
    <3>2. Append(<<>>, c.block) = <<c.block>>
      OBVIOUS
    <3>3. CASE ~mshr[0].mem_sent /\ ~l2_req_valid /\ pending = <<>>
      <4>1. Unsent(0) /\ Issuing(0)
        BY <1>2, <3>3 DEF Unsent, Issuing
      <4>2. l2_req_valid' /\ l2_req_addr' = c.block /\ pending' = <<>>
        BY <1>2, <2>2, <3>1, <3>3, <4>1
      <4>3. mshr'[0].mem_sent
        BY <2>2, <4>1
      <4> QED BY <1>3, <4>2, <4>3 DEF Sending
    <3>4. CASE mshr[0].mem_sent /\ l2_req_valid /\ l2_req_addr = c.block /\ pending = <<>>
      BY <1>2, <1>3, <2>2, <3>1, <3>2, <3>4 DEF Sending, Unsent, Issuing
    <3>5. CASE mshr[0].mem_sent /\ ~l2_req_valid /\ pending = <<c.block>>
      BY <1>2, <1>3, <2>2, <3>1, <3>5 DEF Sending, Unsent, Issuing
    <3> QED BY <1>1, <1>2, <3>3, <3>4, <3>5 DEF Sending
  <2>5. QueuedOp(cur)' = QueuedOp(c)
    BY <1>3 DEF QueuedOp
  <2>6. Fetching'
    BY <1>1, <1>2, <1>3, <2>2, <2>4, <2>5 DEF Fetching
  <2>7. WMStep
    BY <1>1, <1>2, <1>3, <2>2, <2>3, SilentStep DEF WMStep
  <2> QED BY <2>2, <2>6, <2>7 DEF BInv, Phase
<1>7. CASE answers
  <2>1. PICK resp \in Lines : /\ resp = Returned(answers)
                              /\ resp = below[mshr[0].block_addr]
    BY <1>1, <1>2, <1>5, <1>7 DEF Returned, Sending, Step, Below, BTypeOK
  <2>2. Refilling(resp, 0) /\ pending = <<c.block>> /\ ~l2_req_valid
    BY <1>1, <1>2, <1>7, NoLineAssumption
       DEF Refilling, Sent, Sending, Step, Below, Lines
  <2>3. /\ \A b \in Blocks : Contents(b)' = Contents(b)
        /\ CleanLinesAgree'
        /\ \A m \in Mshrs : ~mshr'[m].valid
    BY <1>2, <1>4, <1>5, <2>1, <2>2, NoReqIsNone, RefillEdge
  <2>4. BTypeOK'
    BY <1>4, <2>3 DEF BTypeOK
  <2>5. NoMiss'
    <3>1. ~l2_req_valid'
      BY <1>4, <1>5, <2>2 DEF Edge, Issue, Issuing, Unsent, Refilling, Sent
    <3>2. pending' = <<>>
      BY <1>4, <1>7, <2>2 DEF Below
    <3> QED BY <2>3, <3>1, <3>2 DEF NoMiss
  <2>6. /\ ~read_hit_pending' /\ ~resp_valid_read_hit' /\ ~resp_valid_write'
        /\ write_ack_pending' <=> RefillAck(resp)
    BY <1>2, <1>4, <2>1, NoReqIsNone DEF Edge, LoadHit, StoreHit, NoHit
  <2>7. \A b \in Blocks : Stored(b)' = Stored(b)
    BY <1>2, <1>3, <2>3, WaitingStores
  <2>q. PICK q : q = mshr[0].queue
    OBVIOUS
  <2>8. /\ Loads(q) = IF c.write THEN {} ELSE {1}
        /\ Stores(q) = IF c.write THEN {1} ELSE {}
        /\ q[1].offset = c.offset
    <3>1. Len(<<QueuedOp(c)>>) = 1 /\ <<QueuedOp(c)>>[1] = QueuedOp(c)
      OBVIOUS
    <3>2. QueuedOp(c).is_store = c.write /\ QueuedOp(c).offset = c.offset
      BY DEF QueuedOp
    <3> QED BY <1>2, <2>q, <3>1, <3>2 DEF Loads, Stores
  <2>9. \A m \in Mshrs : Refilling(resp, m) => m = 0
    BY <2>2, OneRefill
  \* A store is acknowledged in the cycle after next.
  <2>10. CASE c.write
    <3>1. refill_resp_valid' = FALSE
      BY <1>4, <2>1, <2>q, <2>8, <2>9, <2>10 DEF Edge, RefillAnswer
    <3>2. write_ack_pending'
      BY <2>2, <2>6, <2>q, <2>8, <2>10 DEF RefillAck
    <3>3. NoAnswer' /\ Acking'
      BY <1>1, <1>2, <1>3, <2>5, <2>6, <2>10, <3>1, <3>2 DEF NoAnswer, Acking
    <3>4. WMStep
      BY <1>1, <1>2, <1>3, <2>7, <3>3, SilentStep DEF WMStep
    <3> QED BY <1>4, <2>3, <2>4, <3>3, <3>4 DEF BInv, Phase
  \* A load is answered from the line just returned.
  <2>11. CASE ~c.write
    <3>1. (CHOOSE n \in Mshrs : Refilling(resp, n)) = 0
      BY <2>2, <2>9
    <3>2. FirstOf({1}) = 1
      BY DEF FirstOf
    <3>3. /\ refill_resp_valid' = TRUE
          /\ refill_resp_data' = Replay(resp, q)[c.offset]
      <4>1. \E m \in Mshrs : Refilling(resp, m) /\ Loads(mshr[m].queue) # {}
        BY <2>2, <2>q, <2>8, <2>11
      <4>2. q[FirstOf(Loads(q))].offset = c.offset
        BY <2>8, <2>11, <3>2
      <4>3. RefillAnswer(resp)
        BY <1>4, <2>1 DEF Edge
      <4> QED BY <2>q, <3>1, <4>1, <4>2, <4>3 DEF RefillAnswer
    <3>4. ~write_ack_pending'
      BY <2>6, <2>q, <2>8, <2>9, <2>11 DEF RefillAck
    <3>5. resp_valid' /\ resp_is_load' /\ resp_rdata' = Replay(resp, q)[c.offset]
      BY <3>3 DEF resp_valid, resp_is_load, resp_rdata
    <3>6. Answered'
      BY <1>1, <1>2, <1>3, <2>5, <2>6, <3>4, <3>5 DEF Answered, NoHit
    <3>7. Stored(c.block) = Replay(resp, q)
      <4>1. ~lookup_hit(c.block)
        BY <1>2, <1>5 DEF IInv, MissesAreAbsent
      <4>2. Contents(c.block) = Replay(Beneath(c.block), q)
        BY <1>2, <2>q, <4>1 DEF Contents, InMshr
      <4>3. Beneath(c.block) = resp
        BY <1>2, <2>1 DEF Beneath
      <4> QED BY <1>2, <4>2, <4>3, NothingOnPort
    <3>8. WM!WMNext
      BY <1>1, <1>2, <1>3, <2>7, <2>11, <3>5, <3>7, AnswerStep DEF WM!WMNext
    <3> QED BY <1>4, <2>3, <2>4, <3>6, <3>8 DEF BInv, Phase, WMStep
  <2> QED BY <1>2, <2>10, <2>11
<1> QED BY <1>6, <1>7

-----------------------------------------------------------------------------
(* Together.                                                               *)

LEMMA BInit == Init => BInv /\ WM!WMInit
<1> SUFFICES ASSUME Init PROVE BInv /\ WM!WMInit
  OBVIOUS
<1>1. IInv
  BY InitIInv DEF Init
<1>2. ZeroLine \in Lines
  BY DataAssumption DEF ZeroLine, Lines
<1>3. BTypeOK /\ CleanLinesAgree /\ req \in Reqs
  BY <1>2, NoReqIsNone DEF Init, L1Init, BTypeOK, CleanLinesAgree
<1>4. Idle
  BY DEF Init, L1Init, Idle, NoAnswer, NoHit, NoMiss
<1>5. \A b \in Blocks : Stored(b) \in Lines
  BY <1>1, <1>3, StoredType DEF IInv
<1>6. resp_valid = FALSE /\ resp_is_load = FALSE
  BY DEF Init, L1Init, resp_valid, resp_is_load
<1>7. [b \in Blocks |-> Stored(b)] \in [Blocks -> [Offsets -> Words]]
  BY <1>5 DEF Lines
<1>8. WM!WMInit
  BY <1>6, <1>7 DEF Init, WM!WMInit
<1> QED BY <1>1, <1>3, <1>4, <1>8 DEF BInv, Phase

LEMMA BStep == BInv /\ [Next]_vars => BInv' /\ WMStep
<1>1. ASSUME BInv, NEW answers \in BOOLEAN, Step(answers)
      PROVE  BInv' /\ WMStep
  BY <1>1, FromIdle, FromOnPort, FromHitting, FromAcking, FromFetching,
     FromAnswered DEF BInv, Phase
<1>2. ASSUME BInv, UNCHANGED vars PROVE BInv' /\ WMStep
  <2>1. BInv'
    <3>1. IInv'
      BY <1>2, StepIInv DEF vars, BInv
    <3>2. CleanLinesAgree'
      BY <1>2 DEF vars, l1Vars, BInv, CleanLinesAgree, Beneath
    <3>3. Phase'
      BY <1>2 DEF vars, l1Vars, BInv, Phase, Idle, OnPort, Hitting, Acking,
                  Fetching, Sending, Answered, NoAnswer, NoHit, NoMiss,
                  resp_valid, Contents, lookup_hit, HitWay, HitIn, InMshr,
                  Beneath, Replay, StoresTo, Stores, QueuedOp
    <3> QED BY <1>2, <3>1, <3>2, <3>3 DEF vars, l1Vars, BInv, BTypeOK
  <2>2. UNCHANGED WM!wmVars
    BY <1>2 DEF vars, l1Vars, WM!wmVars, Stored, resp_valid, resp_is_load,
                resp_rdata, Contents, lookup_hit, HitWay, HitIn, InMshr,
                Beneath, Replay, StoresTo, Stores
  <2> QED BY <2>1, <2>2 DEF WMStep
<1> QED BY <1>1, <1>2 DEF Next

(***************************************************************************)
(* To a requester that waits for its answers, over a level below that      *)
(* answers in order and in any time, L1_Cache.sv is a memory of words:     *)
(* every load returns the word last stored, and every request is answered  *)
(* at most once and by the right kind of answer.                           *)
(***************************************************************************)
THEOREM IsWordMemory == Spec => ImplementsWordMemory
<1> QED BY BInit, BStep, PTL DEF Spec, ImplementsWordMemory, WM!WMSpec, WMStep
=============================================================================
