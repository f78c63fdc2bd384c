--------------------------------- MODULE L1 ---------------------------------
(***************************************************************************)
(* L1_Cache.sv: the two-way, write-back, write-allocate L1 data cache with *)
(* two miss registers (MSHRs).  Edge(req, resp) is one posedge of clk with *)
(* rst_n high: req is the request presented by the load/store queue in     *)
(* this cycle, resp the line the L2 returns in it.  All parts of the       *)
(* always_ff block see the registers as they were before the edge; where   *)
(* two parts assign the same register the later one in the text wins.      *)
(*                                                                         *)
(* A tag together with its set is modelled by the block itself, an aligned *)
(* 64-bit word of a line by its offset.  Slots of a miss queue at or above *)
(* its tail are never read again and are not kept.  The debug registers    *)
(* (done, tag_match, mshrq_mask) are left out.                             *)
(***************************************************************************)
EXTENDS Naturals, Sequences

CONSTANTS Blocks, Sets, SetOf,       \* line addresses, sets, and their map
          Offsets, Words, ZeroWord,  \* words of a line and their contents
          QSLOTS,                    \* slots of a miss queue (4)
          NoLine                     \* no line is being returned

ASSUME SetsAssumption ==
  /\ Blocks # {} /\ SetOf \in [Blocks -> Sets]
  /\ \A s \in Sets : \E b \in Blocks : SetOf[b] = s
ASSUME DataAssumption ==
  ZeroWord \in Words /\ Offsets # {} /\ QSLOTS \in Nat \ {0, 1}
ASSUME NoLineAssumption == NoLine \notin [Offsets -> Words]

Ways  == {0, 1}
Mshrs == {0, 1}
Lines == [Offsets -> Words]
Ops   == [is_store : BOOLEAN, data : Words, offset : Offsets]
AnyBlock == CHOOSE b \in Blocks : TRUE
NoReq == [valid |-> FALSE, write |-> FALSE, block |-> AnyBlock,
          offset |-> CHOOSE o \in Offsets : TRUE, wdata |-> ZeroWord]
Reqs  == [valid : {TRUE}, write : BOOLEAN, block : Blocks,
          offset : Offsets, wdata : Words] \cup {NoReq}

VARIABLES
  lines,      \* [Ways -> [Sets -> line]]: valid, dirty, tag and data arrays
  lru_array,  \* [Sets -> Ways]: the victim
  mshr,       \* [Mshrs -> record]: valid, block_addr, mem_sent, queue
  l2_req_valid, l2_req_addr,
  wb_valid, wb_addr, wb_data,
  refill_resp_valid, refill_resp_data,
  read_hit_pending, write_ack_pending, grabbedData,
  resp_valid_read_hit, resp_valid_write

l1Vars == <<lines, lru_array, mshr, l2_req_valid, l2_req_addr,
            wb_valid, wb_addr, wb_data, refill_resp_valid, refill_resp_data,
            read_hit_pending, write_ack_pending, grabbedData,
            resp_valid_read_hit, resp_valid_write>>

resp_valid   == resp_valid_read_hit \/ refill_resp_valid \/ resp_valid_write
resp_is_load == resp_valid_read_hit \/ refill_resp_valid
resp_rdata   == IF refill_resp_valid THEN refill_resp_data ELSE grabbedData

ZeroLine == [o \in Offsets |-> ZeroWord]
\* Reset clears every tag: tag zero in set s.
TagZero(s) == CHOOSE b \in Blocks : SetOf[b] = s

L1Init ==
  /\ lines = [w \in Ways |-> [s \in Sets |->
                [valid |-> FALSE, dirty |-> FALSE, tag |-> TagZero(s),
                 data |-> ZeroLine]]]
  /\ lru_array = [s \in Sets |-> 0]
  /\ mshr = [m \in Mshrs |-> [valid |-> FALSE, block_addr |-> AnyBlock,
                              mem_sent |-> FALSE, queue |-> <<>>]]
  /\ l2_req_valid = FALSE /\ l2_req_addr = AnyBlock
  /\ wb_valid = FALSE /\ wb_addr = AnyBlock /\ wb_data = ZeroLine
  /\ refill_resp_valid = FALSE /\ refill_resp_data = ZeroWord
  /\ read_hit_pending = FALSE /\ write_ack_pending = FALSE
  /\ grabbedData = ZeroWord
  /\ resp_valid_read_hit = FALSE /\ resp_valid_write = FALSE

-----------------------------------------------------------------------------
(* Lookup.                                                                 *)

HitIn(w, b)   == lines[w][SetOf[b]].valid /\ lines[w][SetOf[b]].tag = b
\* Fault: only way 0 is compared.
lookup_hit_way0(b) == HitIn(0, b)
lookup_hit(b) == \E w \in Ways : HitIn(w, b)
HitWay(b)     == IF HitIn(0, b) THEN 0 ELSE 1

InMshr(m, b)  == mshr[m].valid /\ mshr[m].block_addr = b

-----------------------------------------------------------------------------
(* Issue: one request per cycle, MSHR 0 first.                             *)

Unsent(m)  == mshr[m].valid /\ ~mshr[m].mem_sent
\* Fault: MSHR 1 waits until MSHR 0 is free.
IssuingOneByOne(m) == Unsent(m) /\ (m = 1 => ~mshr[0].valid)
Issuing(m) == Unsent(m) /\ (m = 1 => ~Unsent(0))

Issue ==
  /\ l2_req_valid' = \E m \in Mshrs : Issuing(m)
  /\ l2_req_addr' = IF Issuing(0) THEN mshr[0].block_addr
                    ELSE IF Issuing(1) THEN mshr[1].block_addr
                    ELSE l2_req_addr

-----------------------------------------------------------------------------
(***************************************************************************)
(* Refill.  The returned line carries no address: it is taken to be the    *)
(* answer to MSHR 0 if that has been sent, else to MSHR 1.                 *)
(***************************************************************************)
Sent(m) == mshr[m].valid /\ mshr[m].mem_sent
Refilling(resp, m) == resp # NoLine /\ Sent(m) /\ (m = 1 => ~Sent(0))

RefillWay(s) == IF ~lines[0][s].valid THEN 0
                ELSE IF ~lines[1][s].valid THEN 1
                ELSE lru_array[s]

\* The queued stores applied to the returned line, oldest first.
Stores(q)   == {k \in 1 .. Len(q) : q[k].is_store}
Loads(q)    == {k \in 1 .. Len(q) : ~q[k].is_store}
StoresTo(q, o) == {k \in Stores(q) : q[k].offset = o}
LastOf(S)   == CHOOSE k \in S : \A j \in S : j <= k
FirstOf(S)  == CHOOSE k \in S : \A j \in S : k <= j

Replay(line, q) ==
  [o \in Offsets |-> IF StoresTo(q, o) = {} THEN line[o]
                     ELSE q[LastOf(StoresTo(q, o))].data]

\* Fault: stores queued behind the miss do not make the line dirty.
RefilledClean(resp, m) ==
  LET b == mshr[m].block_addr
      q == mshr[m].queue
  IN [lines EXCEPT ![RefillWay(SetOf[b])][SetOf[b]] =
        [valid |-> TRUE, dirty |-> FALSE, tag |-> b, data |-> Replay(resp, q)]]

\* Install the line of MSHR m, write back a dirty victim, answer the first
\* queued load, or acknowledge the stores if there is none.
RefilledLines(resp, m) ==
  LET b == mshr[m].block_addr
      q == mshr[m].queue
  IN [lines EXCEPT ![RefillWay(SetOf[b])][SetOf[b]] =
        [valid |-> TRUE, dirty |-> Stores(q) # {}, tag |-> b,
         data |-> Replay(resp, q)]]

\* Fault: the victim is handed down under the tag of the new line.
WriteBackNewTag(resp) ==
  IF \E m \in Mshrs : Refilling(resp, m)
  THEN LET m == CHOOSE n \in Mshrs : Refilling(resp, n)
           s == SetOf[mshr[m].block_addr]
           victim == lines[RefillWay(s)][s]
           evict == victim.valid /\ victim.dirty
       IN /\ wb_valid' = evict
          /\ wb_addr' = IF evict THEN mshr[m].block_addr ELSE wb_addr
          /\ wb_data' = IF evict THEN victim.data ELSE wb_data
  ELSE wb_valid' = FALSE /\ UNCHANGED <<wb_addr, wb_data>>

WriteBack(resp) ==
  IF \E m \in Mshrs : Refilling(resp, m)
  THEN LET m == CHOOSE n \in Mshrs : Refilling(resp, n)
           s == SetOf[mshr[m].block_addr]
           victim == lines[RefillWay(s)][s]
           evict == victim.valid /\ victim.dirty
       IN /\ wb_valid' = evict
          /\ wb_addr' = IF evict THEN victim.tag ELSE wb_addr
          /\ wb_data' = IF evict THEN victim.data ELSE wb_data
  ELSE wb_valid' = FALSE /\ UNCHANGED <<wb_addr, wb_data>>

RefillAnswer(resp) ==
  IF \E m \in Mshrs : Refilling(resp, m) /\ Loads(mshr[m].queue) # {}
  THEN LET m == CHOOSE n \in Mshrs : Refilling(resp, n)
           q == mshr[m].queue
       IN /\ refill_resp_valid' = TRUE
          /\ refill_resp_data' = Replay(resp, q)[q[FirstOf(Loads(q))].offset]
  ELSE refill_resp_valid' = FALSE /\ UNCHANGED refill_resp_data

\* Fault: a miss queue of stores only is never acknowledged.
RefillAckNever(resp) == FALSE

RefillAck(resp) ==
  \E m \in Mshrs : /\ Refilling(resp, m)
                   /\ Loads(mshr[m].queue) = {} /\ Stores(mshr[m].queue) # {}

-----------------------------------------------------------------------------
(***************************************************************************)
(* Requests.  A miss joins the MSHR of its block, else takes a free one;   *)
(* if there is none the request is not recorded anywhere.                  *)
(***************************************************************************)
LoadHit(req)  == req.valid /\ ~req.write /\ lookup_hit(req.block)
StoreHit(req) == req.valid /\ req.write /\ lookup_hit(req.block)
Miss(req)     == req.valid /\ ~lookup_hit(req.block)

Merges(req, m) == /\ Miss(req) /\ InMshr(m, req.block)
                  /\ m = 1 => ~InMshr(0, req.block)
\* Fault: a miss takes a free MSHR although its block has one.
AllocatesTwice(req, m) == /\ Miss(req) /\ ~mshr[m].valid
                          /\ m = 1 => mshr[0].valid
Allocates(req, m) == /\ Miss(req) /\ \A n \in Mshrs : ~InMshr(n, req.block)
                     /\ ~mshr[m].valid
                     /\ m = 1 => mshr[0].valid

QueuedOp(req) == [is_store |-> req.write, offset |-> req.offset,
                  data |-> IF req.write THEN req.wdata ELSE ZeroWord]

\* The tail is as wide as a slot number: filling the last slot wraps it to 0.
Enqueue(q, op) == IF Len(q) + 1 = QSLOTS THEN <<>> ELSE Append(q, op)

\* Fault: the MSHR is not freed by the refill.
NextMshrKept(req, resp, m) ==
  IF Allocates(req, m)
  THEN [valid |-> TRUE, block_addr |-> req.block, mem_sent |-> FALSE,
        queue |-> <<QueuedOp(req)>>]
  ELSE [mshr[m] EXCEPT
          !.mem_sent = @ \/ Issuing(m),
          !.queue = IF Merges(req, m) THEN Enqueue(@, QueuedOp(req)) ELSE @]

\* A refill and a merge of the same edge: the MSHR is freed and the merged
\* operation is lost with it.
NextMshr(req, resp, m) ==
  IF Allocates(req, m)
  THEN [valid |-> TRUE, block_addr |-> req.block, mem_sent |-> FALSE,
        queue |-> <<QueuedOp(req)>>]
  ELSE IF Refilling(resp, m)
  THEN [mshr[m] EXCEPT !.valid = FALSE, !.mem_sent = FALSE, !.queue = <<>>]
  ELSE [mshr[m] EXCEPT
          !.mem_sent = @ \/ Issuing(m),
          !.queue = IF Merges(req, m) THEN Enqueue(@, QueuedOp(req)) ELSE @]

\* The arrays: the refill first, then a store hit, which may overwrite a word
\* of the way just refilled.
NextLines(req, resp) ==
  LET refilled == IF Refilling(resp, 0) THEN RefilledLines(resp, 0)
                  ELSE IF Refilling(resp, 1) THEN RefilledLines(resp, 1)
                  ELSE lines
      w == HitWay(req.block)
      s == SetOf[req.block]
  IN IF StoreHit(req)
     THEN [refilled EXCEPT ![w][s] =
             [valid |-> TRUE, dirty |-> TRUE, tag |-> @.tag,
              data |-> [@.data EXCEPT ![req.offset] = req.wdata]]]
     ELSE refilled

\* The victim is the way that was not used; a hit wins over a refill.
NextLru(req, resp) ==
  [s \in Sets |->
     IF req.valid /\ lookup_hit(req.block) /\ SetOf[req.block] = s
     THEN 1 - HitWay(req.block)
     ELSE IF \E m \in Mshrs : Refilling(resp, m) /\ SetOf[mshr[m].block_addr] = s
     THEN 1 - RefillWay(s)
     ELSE lru_array[s]]

Edge(req, resp) ==
  /\ Issue
  /\ WriteBack(resp)
  /\ RefillAnswer(resp)
  /\ lines' = NextLines(req, resp)
  /\ lru_array' = NextLru(req, resp)
  /\ mshr' = [m \in Mshrs |-> NextMshr(req, resp, m)]
  /\ read_hit_pending' = LoadHit(req)
  /\ write_ack_pending' = (StoreHit(req) \/ RefillAck(resp))
  /\ resp_valid_read_hit' = read_hit_pending
  /\ resp_valid_write' = write_ack_pending
  /\ grabbedData' = IF LoadHit(req)
                    THEN lines[HitWay(req.block)][SetOf[req.block]].data[req.offset]
                    ELSE grabbedData

\* Any request and any response, in any cycle.
L1Next == \E req \in Reqs, resp \in Lines \cup {NoLine} : Edge(req, resp)

L1Spec == L1Init /\ [][L1Next]_l1Vars
-----------------------------------------------------------------------------
(* Properties.                                                             *)

LineRec == [valid : BOOLEAN, dirty : BOOLEAN, tag : Blocks, data : Lines]
MshrRec == [valid : BOOLEAN, block_addr : Blocks, mem_sent : BOOLEAN,
            queue : Seq(Ops)]

\* The arrays, the MSHRs and the output registers keep their types; a tail
\* stays below the number of slots.
TypeOK ==
  /\ lines \in [Ways -> [Sets -> LineRec]]
  /\ lru_array \in [Sets -> Ways]
  /\ mshr \in [Mshrs -> MshrRec]
  /\ \A m \in Mshrs : Len(mshr[m].queue) < QSLOTS
  /\ l2_req_valid \in BOOLEAN /\ l2_req_addr \in Blocks
  /\ wb_valid \in BOOLEAN /\ wb_addr \in Blocks /\ wb_data \in Lines
  /\ refill_resp_valid \in BOOLEAN /\ refill_resp_data \in Words
  /\ read_hit_pending \in BOOLEAN /\ write_ack_pending \in BOOLEAN
  /\ grabbedData \in Words
  /\ resp_valid_read_hit \in BOOLEAN /\ resp_valid_write \in BOOLEAN

\* Every line is in the set its block maps to.
LinesInTheirSet == \A w \in Ways, s \in Sets : SetOf[lines[w][s].tag] = s

(***************************************************************************)
(* A block is never in both ways of its set, so a load that reads way 0    *)
(* and a store that writes way 0 cannot miss a newer copy in way 1.        *)
(***************************************************************************)
OneCopyPerBlock ==
  \A s \in Sets : lines[0][s].valid /\ lines[1][s].valid
                    => lines[0][s].tag # lines[1][s].tag

(***************************************************************************)
(* A block that is being fetched is not in the cache, and is fetched by    *)
(* one MSHR only: a refill can never overwrite newer dirty data of its own *)
(* block nor install it a second time.                                     *)
(***************************************************************************)
MissesAreAbsent ==
  /\ \A m \in Mshrs : mshr[m].valid => ~lookup_hit(mshr[m].block_addr)
  /\ mshr[0].valid /\ mshr[1].valid => mshr[0].block_addr # mshr[1].block_addr

(***************************************************************************)
(* L1 never asks the L2 for a line in the very cycle in which it hands the *)
(* same line back: the L2 has no order between its two ports.              *)
(***************************************************************************)
NoFetchOfEvicted == l2_req_valid /\ wb_valid => l2_req_addr # wb_addr

\* A dirty line leaves the cache only through the write-back port.
DirtyLinesAreWrittenBack ==
  [][\A w \in Ways, s \in Sets :
       LET old == lines[w][s]
       IN old.valid /\ old.dirty /\ lines'[w][s].tag # old.tag
            => wb_valid' /\ wb_addr' = old.tag /\ wb_data' = old.data]_l1Vars

\* Every miss that has been recorded is sent to the L2, MSHR 1 included.
MissesAreRequested == \A m \in Mshrs : Unsent(m) ~> ~Unsent(m)

L1FairSpec == L1Spec /\ WF_l1Vars(L1Next)
=============================================================================
