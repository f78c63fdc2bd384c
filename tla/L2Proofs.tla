------------------------------ MODULE L2Proofs ------------------------------
(***************************************************************************)
(* Proofs about L2.tla, for any blocks, sets, ways, miss registers, memory *)
(* latency and replacement policy, in simulation and with USE_AVALON, and  *)
(* for any requests, write-backs and answers of the memory; about          *)
(* L2Client.tla under two misses of L1 at a time, where the L2 with its    *)
(* simulated memory is a store of lines; and about L2Avalon.tla at the     *)
(* driver's pace, where the L2 over the Avalon master is one too.          *)
(***************************************************************************)
EXTENDS L2Avalon, Arithmetic, FiniteSetTheorems

Reads   == Lines \cup {NoLine}
Reqs    == Blocks \cup {NoBlock}
Wbs     == WriteBacks \cup {NoWb}

-----------------------------------------------------------------------------
(* Operators.                                                              *)

\* The first of a non-empty set of indices is one of them.
LEMMA LeastIsMember ==
  ASSUME NEW S \in SUBSET Nat, S # {}
  PROVE  LeastOf(S) \in S
<1>1. PICK m \in S : \A k \in S : m <= k
  BY LeastElement
<1> QED BY <1>1 DEF LeastOf

LEMMA WaysAreNumbers == Ways \in SUBSET Nat /\ Mshrs \in SUBSET Nat
<1> QED BY L2SizeAssumption DEF Ways, Mshrs

\* No write-back is not one of the write-backs.
LEMMA NoWbIsNone == NoWb \notin WriteBacks
<1> QED BY L2DataAssumption DEF NoWb, WriteBacks

\* The set of a block is a set, and its reset tag lies in it.
LEMMA SetOfType ==
  /\ \A b \in Blocks : SetOf[b] \in Sets
  /\ \A s \in Sets : TagZero(s) \in Blocks /\ SetOf[TagZero(s)] = s
  /\ AnyBlock \in Blocks
<1>1. \A b \in Blocks : SetOf[b] \in Sets
  BY L2SetsAssumption
<1>2. \A s \in Sets : TagZero(s) \in Blocks /\ SetOf[TagZero(s)] = s
  BY L2SetsAssumption DEF TagZero
<1>3. AnyBlock \in Blocks
  BY L2SetsAssumption DEF AnyBlock
<1> QED BY <1>1, <1>2, <1>3

\* The way a line is looked up in or installed in is a way.
LEMMA HitWayType ==
  ASSUME TypeOK, NEW b \in Blocks, hit(b)
  PROVE  LeastOf(HitWays(b)) \in HitWays(b) /\ LeastOf(HitWays(b)) \in Ways
<1>1. HitWays(b) \in SUBSET Nat
  BY WaysAreNumbers DEF HitWays
<1>2. LeastOf(HitWays(b)) \in HitWays(b)
  BY <1>1, LeastIsMember DEF hit
<1> QED BY <1>2 DEF HitWays

LEMMA HitLineType ==
  ASSUME TypeOK, NEW b \in Blocks, hit(b)
  PROVE  HitLine(b) \in Lines
<1>1. LeastOf(HitWays(b)) \in Ways /\ SetOf[b] \in Sets
  BY HitWayType, SetOfType
<1>2. \A w \in Ways, s \in Sets : lines[w][s].data \in Lines
  BY DEF TypeOK, LineRec
<1> QED BY <1>1, <1>2 DEF HitLine

LEMMA InstallWayType ==
  ASSUME TypeOK, NEW s \in Sets
  PROVE  find_install_way(s) \in Ways
<1>1. CASE InvalidWays(s) # {}
  <2>1. InvalidWays(s) \in SUBSET Nat
    BY WaysAreNumbers DEF InvalidWays
  <2>2. LeastOf(InvalidWays(s)) \in InvalidWays(s)
    BY <1>1, <2>1, LeastIsMember
  <2> QED BY <1>1, <2>2 DEF find_install_way, InvalidWays
<1>2. CASE InvalidWays(s) = {}
  <2>1. plru_bits[s] \in Policies
    BY DEF TypeOK
  <2> QED BY <1>2, <2>1, PolicyAssumption DEF find_install_way
<1> QED BY <1>1, <1>2

\* The line an install displaces is a line of the block in its tag.
LEMMA EvictedType ==
  ASSUME TypeOK, NEW s \in Sets
  PROVE  Evicted(s) \in WriteBacks
<1>1. find_install_way(s) \in Ways
  BY InstallWayType
<1>2. \A w \in Ways : lines[w][s] \in LineRec
  BY DEF TypeOK
<1>3. Displaced(s) \in LineRec
  BY <1>1, <1>2 DEF Displaced
<1> QED BY <1>3 DEF Evicted, LineRec, WriteBacks

\* The write-back that is absorbed, and where it goes.
LEMMA AbsorbedType ==
  ASSUME TypeOK, NEW rd \in Reads
  PROVE  Absorbed(rd) \in Wbs
<1> QED BY DEF Absorbed, TypeOK, Wbs

LEMMA AbsorbType ==
  ASSUME TypeOK, NEW rd \in Reads, Absorbs(rd)
  PROVE  /\ Absorbed(rd) \in WriteBacks /\ Absorbed(rd).block \in Blocks
         /\ Absorbed(rd).data \in Lines
         /\ AbsorbSet(rd) \in Sets /\ AbsorbWay(rd) \in Ways
<1>1. Absorbed(rd) \in WriteBacks
  BY AbsorbedType DEF Absorbs, Wbs
<1>2. Absorbed(rd).block \in Blocks /\ Absorbed(rd).data \in Lines
  BY <1>1 DEF WriteBacks
<1>3. AbsorbSet(rd) \in Sets
  BY <1>2, SetOfType DEF AbsorbSet
<1>4. AbsorbWay(rd) \in Ways
  BY <1>2, <1>3, HitWayType, InstallWayType DEF AbsorbWay
<1> QED BY <1>1, <1>2, <1>3, <1>4

LEMMA FillType ==
  ASSUME TypeOK, NEW rd \in Reads
  PROVE  /\ fill_blk \in Blocks /\ fill_idx \in Sets
         /\ find_install_way(fill_idx) \in Ways
         /\ Refilling(rd) => fill_data(rd) \in Lines
<1>1. fill_blk \in Blocks
  BY DEF fill_blk, TypeOK, MshrRec
<1>2. fill_idx \in Sets
  BY <1>1, SetOfType DEF fill_idx
<1>3. Refilling(rd) => fill_data(rd) \in Lines
  BY <1>1, L2DataAssumption DEF Refilling, fill_data, TypeOK, Reads
<1> QED BY <1>1, <1>2, <1>3, InstallWayType

-----------------------------------------------------------------------------
(* One edge keeps every register in its type.                              *)

LEMMA NextLinesType ==
  ASSUME TypeOK, NEW rd \in Reads
  PROVE  NextLines(rd) \in [Ways -> [Sets -> LineRec]]
<1>1. Refilled(rd) \in [Ways -> [Sets -> LineRec]]
  <2> DEFINE new == [valid |-> TRUE, dirty |-> FALSE, tag |-> fill_blk,
                     data |-> fill_data(rd)]
  <2>1. lines \in [Ways -> [Sets -> LineRec]]
    BY DEF TypeOK
  <2>2. CASE Refilling(rd)
    <3>1. new \in LineRec
      BY <2>2, FillType DEF LineRec
    <3> HIDE DEF new
    <3>2. [lines EXCEPT ![find_install_way(fill_idx)][fill_idx] = new]
            \in [Ways -> [Sets -> LineRec]]
      BY <2>1, <3>1, FillType
    <3> QED BY <2>2, <3>2 DEF Refilled, new
  <2> QED BY <2>1, <2>2 DEF Refilled
<1>2. CASE ~Absorbs(rd)
  BY <1>1, <1>2 DEF NextLines
<1>3. CASE Absorbs(rd)
  <2> DEFINE w == AbsorbWay(rd)
             s == AbsorbSet(rd)
             L == Refilled(rd)
             at == L[w][s]
             new == [valid |-> TRUE, dirty |-> TRUE,
                     tag |-> Absorbed(rd).block, data |-> Absorbed(rd).data]
             old == [valid |-> at.valid, dirty |-> TRUE,
                     tag |-> at.tag, data |-> Absorbed(rd).data]
  <2>1. w \in Ways /\ s \in Sets
    BY <1>3, AbsorbType
  <2>2. new \in LineRec
    BY <1>3, AbsorbType DEF LineRec
  <2> HIDE DEF w, s, L
  <2>3. at \in LineRec
    BY <1>1, <2>1 DEF L
  <2>4. old \in LineRec
    BY <1>3, <2>3, AbsorbType DEF LineRec
  <2>5. NextLines(rd) = [L EXCEPT ![w][s] = new] \/ NextLines(rd) = [L EXCEPT ![w][s] = old]
    BY <1>3 DEF NextLines, w, s, L
  <2> HIDE DEF new, old
  <2> QED BY <1>1, <2>1, <2>2, <2>4, <2>5 DEF L
<1> QED BY <1>2, <1>3

LEMMA NextPolicyType ==
  ASSUME TypeOK, NEW rd \in Reads, NEW s \in Sets
  PROVE  NextPolicy(rd, s) \in Policies
<1>1. plru_bits[s] \in Policies
  BY DEF TypeOK
<1>2. \A w \in Ways : lines[w][s].valid \in BOOLEAN /\ lines[w][s].dirty \in BOOLEAN
  BY DEF TypeOK, LineRec
<1>3. RefillUpdate(rd, s) \in SUBSET Policies
  <2>1. 0 \in Ways
    BY L2SizeAssumption DEF Ways
  <2> QED BY <1>1, <1>2, <2>1, InstallWayType, PolicyAssumption DEF RefillUpdate
<1>4. ReadUpdate(rd, s) \in SUBSET Policies
  <2>1. CASE ReadHit
    <3>1. s1_req \in Blocks /\ hit(s1_req)
      BY <2>1 DEF ReadHit, Looked, TypeOK
    <3>2. LeastOf(HitWays(s1_req)) \in Ways
      BY <3>1, HitWayType
    <3> QED BY <1>1, <3>2, PolicyAssumption DEF ReadUpdate
  <2> QED BY <2>1 DEF ReadUpdate
<1>5. AbsorbUpdate(rd, s) \in SUBSET Policies
  <2>1. CASE Absorbs(rd)
    <3>1. AbsorbWay(rd) \in Ways
      BY <2>1, AbsorbType
    <3>2. DirtyVictim(s) \in BOOLEAN
      BY <1>2, InstallWayType DEF DirtyVictim, Displaced
    <3> QED BY <1>1, <3>1, <3>2, PolicyAssumption DEF AbsorbUpdate
  <2> QED BY <2>1 DEF AbsorbUpdate
<1> QED BY <1>1, <1>3, <1>4, <1>5 DEF NextPolicy

LEMMA RespondType ==
  ASSUME TypeOK, NEW rd \in Reads, Respond(rd)
  PROVE  l2_resp' \in Reads /\ defer' \in Reads
<1>1. ReadHit => HitLine(s1_req) \in Lines
  BY HitLineType DEF ReadHit, Looked, TypeOK
<1>2. Refilling(rd) => fill_data(rd) \in Lines
  BY FillType
<1> QED BY <1>1, <1>2 DEF Respond, TypeOK, Reads

LEMMA EvictType ==
  ASSUME TypeOK, NEW rd \in Reads, NEW busy \in BOOLEAN
  PROVE  /\ NextEvict(rd, busy) \in Seq(WriteBacks)
         /\ Len(NextEvict(rd, busy)) <= 2
<1>1. evict \in Seq(WriteBacks) /\ Len(evict) <= 2
  BY DEF TypeOK
<1>2. CASE Draining(busy)
  <2>1. evict # <<>>
    BY <1>2 DEF Draining
  <2>2. Tail(evict) \in Seq(WriteBacks) /\ Len(Tail(evict)) = Len(evict) - 1
    BY <1>1, <2>1
  <2>3. Len(evict) \in Nat
    BY <1>1
  <2> QED BY <1>1, <1>2, <2>2, <2>3 DEF NextEvict
<1>3. CASE ~Draining(busy) /\ USE_AVALON /\ (RefillEvicts(rd) \/ AbsorbEvicts(rd))
  <2> DEFINE entry == Evicted(IF AbsorbEvicts(rd) THEN AbsorbSet(rd) ELSE fill_idx)
  <2>1. entry \in WriteBacks
    <3>1. AbsorbEvicts(rd) => AbsorbSet(rd) \in Sets
      BY AbsorbType DEF AbsorbEvicts, Installs
    <3> QED BY <3>1, FillType, EvictedType
  <2>2. Push(rd) = IF evict = <<>> THEN <<entry>> ELSE <<Head(evict), entry>>
    BY DEF Push
  <2> HIDE DEF entry
  <2>3. evict # <<>> => Head(evict) \in WriteBacks
    BY <1>1
  <2>4. Push(rd) \in Seq(WriteBacks) /\ Len(Push(rd)) <= 2
    BY <2>1, <2>2, <2>3
  <2> QED BY <1>3, <2>4 DEF NextEvict
<1>4. CASE ~Draining(busy) /\ ~(USE_AVALON /\ (RefillEvicts(rd) \/ AbsorbEvicts(rd)))
  BY <1>1, <1>4 DEF NextEvict
<1> QED BY <1>2, <1>3, <1>4

LEMMA SavedType ==
  ASSUME TypeOK, NEW rd \in Reads
  PROVE  Saved(rd) \in [Blocks -> Lines]
<1>1. backing_mem \in [Blocks -> Lines]
  BY DEF TypeOK
<1>2. \A s \in Sets : Evicted(s).block \in Blocks /\ Evicted(s).data \in Lines
  BY EvictedType DEF WriteBacks
<1> DEFINE first == IF RefillEvicts(rd)
                    THEN [backing_mem EXCEPT ![Evicted(fill_idx).block] = Evicted(fill_idx).data]
                    ELSE backing_mem
<1>3. first \in [Blocks -> Lines]
  BY <1>1, <1>2, FillType
<1>4. AbsorbEvicts(rd) => AbsorbSet(rd) \in Sets
  BY AbsorbType DEF AbsorbEvicts, Installs
<1>5. Saved(rd) = IF AbsorbEvicts(rd)
                  THEN [first EXCEPT ![Evicted(AbsorbSet(rd)).block] = Evicted(AbsorbSet(rd)).data]
                  ELSE first
  BY DEF Saved
<1> HIDE DEF first
<1> QED BY <1>2, <1>3, <1>4, <1>5

\* The MSHR that a miss takes, and the one that is sent.
LEMMA MshrChoice ==
  ASSUME TypeOK
  PROVE  /\ FreeMshrs # {} => LeastOf(FreeMshrs) \in FreeMshrs
         /\ Unsent # {} => LeastOf(Unsent) \in Unsent
<1>1. FreeMshrs \in SUBSET Nat /\ Unsent \in SUBSET Nat
  BY WaysAreNumbers DEF FreeMshrs, Unsent
<1> QED BY <1>1, LeastIsMember

LEMMA IssueType ==
  ASSUME TypeOK, NEW rd \in Reads, NEW busy \in BOOLEAN, Issue(rd, busy)
  PROVE  /\ mem_busy' \in BOOLEAN /\ mem_counter' \in 0 .. (MEM_LATENCY - 1)
         /\ mem_pend_id' \in Mshrs
         /\ ext_mem_rd_req' \in Reqs /\ ext_mem_wr_req' \in Wbs
<1>1. mem_busy' \in BOOLEAN
  BY DEF Issue, MemBusy, Issues, CanIssue, Refilling
<1>2. mem_counter' \in 0 .. (MEM_LATENCY - 1)
  BY L2SizeAssumption DEF Issue, TypeOK, MEM_LAT_INIT
<1>3. Issues(busy) => LeastOf(Unsent) \in Mshrs
  BY MshrChoice DEF Issues, Unsent
<1>4. mem_pend_id' \in Mshrs
  BY <1>3 DEF Issue, TypeOK
<1>5. ext_mem_rd_req' \in Reqs
  BY <1>3 DEF Issue, TypeOK, MshrRec, Reqs
<1>6. ext_mem_wr_req' \in Wbs
  <2>1. Draining(busy) => Head(evict) \in WriteBacks
    BY DEF Draining, TypeOK
  <2> QED BY <2>1 DEF Issue, Wbs
<1> QED BY <1>1, <1>2, <1>4, <1>5, <1>6

LEMMA NextMshrType ==
  ASSUME TypeOK, NEW rd \in Reads, NEW busy \in BOOLEAN, NEW i \in Mshrs
  PROVE  NextMshr(rd, busy, i) \in MshrRec
<1>1. mshr[i] \in MshrRec
  BY DEF TypeOK
<1>2. CASE Allocates(i)
  <2>1. s1_req \in Blocks
    BY <1>2 DEF Allocates, ReadMiss, Looked, TypeOK
  <2> QED BY <1>2, <2>1 DEF NextMshr, MshrRec
<1>3. CASE ~Allocates(i)
  <2>1. (mshr[i].valid /\ ~(Refilling(rd) /\ i = mem_pend_id)) \in BOOLEAN
    BY <1>1 DEF MshrRec
  <2>2. (mshr[i].mem_sent \/ Issuing(busy, i)) \in BOOLEAN
    BY <1>1 DEF MshrRec
  <2> QED BY <1>1, <1>3, <2>1, <2>2 DEF NextMshr, MshrRec
<1> QED BY <1>2, <1>3

LEMMA EdgeType ==
  ASSUME TypeOK, NEW req \in Reqs, NEW back \in Wbs, NEW rd \in Reads,
         NEW busy \in BOOLEAN, Edge(req, back, rd, busy)
  PROVE  TypeOK'
<1>1. lines' \in [Ways -> [Sets -> LineRec]]
  BY NextLinesType DEF Edge
<1>2. plru_bits' \in [Sets -> Policies]
  BY NextPolicyType DEF Edge
<1>3. mshr' \in [Mshrs -> MshrRec]
  BY NextMshrType DEF Edge
<1>4. /\ mem_busy' \in BOOLEAN /\ mem_counter' \in 0 .. (MEM_LATENCY - 1)
      /\ mem_pend_id' \in Mshrs
      /\ ext_mem_rd_req' \in Reqs /\ ext_mem_wr_req' \in Wbs
  BY IssueType DEF Edge
<1>5. evict' \in Seq(WriteBacks) /\ Len(evict') <= 2
  BY EvictType DEF Edge
<1>6. s1_req' \in Reqs /\ s1_wb' \in Wbs
  BY DEF Edge
<1>7. l2_resp' \in Reads /\ defer' \in Reads
  BY RespondType DEF Edge
<1>8. defer_wb' \in Wbs
  BY DEF Edge, DeferWb, TypeOK, Wbs
<1>9. backing_mem' \in [Blocks -> Lines]
  BY SavedType DEF Edge, TypeOK
<1> QED BY <1>1, <1>2, <1>3, <1>4, <1>5, <1>6, <1>7, <1>8, <1>9
    DEF TypeOK, Reads, Reqs, Wbs

LEMMA InitType == L2Init => TypeOK
<1> SUFFICES ASSUME L2Init PROVE TypeOK
  OBVIOUS
<1>1. lines \in [Ways -> [Sets -> LineRec]]
  BY SetOfType, L2DataAssumption DEF L2Init, LineRec
<1>2. plru_bits \in [Sets -> Policies]
  BY PolicyAssumption DEF L2Init
<1>3. mshr \in [Mshrs -> MshrRec]
  BY SetOfType DEF L2Init, MshrRec
<1>4. mem_counter \in 0 .. (MEM_LATENCY - 1) /\ mem_pend_id \in Mshrs
  BY L2SizeAssumption DEF L2Init, Mshrs
<1>5. evict \in Seq(WriteBacks) /\ Len(evict) <= 2
  BY DEF L2Init
<1>6. backing_mem \in [Blocks -> Lines]
  BY L2DataAssumption DEF L2Init
<1> QED BY <1>1, <1>2, <1>3, <1>4, <1>5, <1>6 DEF L2Init, TypeOK

-----------------------------------------------------------------------------
(***************************************************************************)
(* The miss registers.  The duplicate check is sound because a refill only *)
(* takes validity away, and the memory's answer finds its MSHR because a   *)
(* miss takes a register that is free while mem_pend_id is not.            *)
(***************************************************************************)
IInv == TypeOK /\ MshrsAreDistinct /\ FetchIsTracked

\* What an edge makes of a register: taken for the latched request, or kept.
LEMMA MshrStep ==
  ASSUME TypeOK, NEW req \in Reqs, NEW back \in Wbs, NEW rd \in Reads,
         NEW busy \in BOOLEAN, Edge(req, back, rd, busy), NEW i \in Mshrs
  PROVE  /\ Allocates(i) => /\ ~mshr[i].valid
                            /\ mshr'[i] = [valid |-> TRUE, block_addr |-> s1_req,
                                           mem_sent |-> FALSE]
         /\ ~Allocates(i) =>
              /\ mshr'[i].valid <=> mshr[i].valid /\ ~(Refilling(rd) /\ i = mem_pend_id)
              /\ mshr'[i].block_addr = mshr[i].block_addr
              /\ mshr'[i].mem_sent <=> (mshr[i].mem_sent \/ Issuing(busy, i))
<1>1. mshr'[i] = NextMshr(rd, busy, i)
  BY DEF Edge
<1>2. Allocates(i) => ~mshr[i].valid
  BY MshrChoice DEF Allocates, FreeMshrs
<1>3. CASE Allocates(i)
  BY <1>1, <1>2, <1>3 DEF NextMshr
<1>4. CASE ~Allocates(i)
  <2> DEFINE v == mshr[i].valid /\ ~(Refilling(rd) /\ i = mem_pend_id)
             m == mshr[i].mem_sent \/ Issuing(busy, i)
  <2>1. mshr'[i] = [valid |-> v, block_addr |-> mshr[i].block_addr, mem_sent |-> m]
    BY <1>1, <1>4 DEF NextMshr
  <2> HIDE DEF v, m
  <2>2. mshr'[i].valid = v /\ mshr'[i].mem_sent = m
        /\ mshr'[i].block_addr = mshr[i].block_addr
    BY <2>1
  <2> QED BY <1>4, <2>2, Zenon DEF v, m
<1> QED BY <1>3, <1>4

LEMMA EdgeDistinct ==
  ASSUME IInv, NEW req \in Reqs, NEW back \in Wbs, NEW rd \in Reads,
         NEW busy \in BOOLEAN, Edge(req, back, rd, busy)
  PROVE  MshrsAreDistinct'
<1> SUFFICES ASSUME NEW i \in Mshrs, NEW j \in Mshrs,
                    mshr'[i].valid, mshr'[j].valid,
                    mshr'[i].block_addr = mshr'[j].block_addr
             PROVE  i = j
  BY DEF MshrsAreDistinct
<1>1. \A k, l \in Mshrs : Allocates(k) /\ Allocates(l) => k = l
  BY DEF Allocates
<1>2. ASSUME NEW k \in Mshrs, NEW l \in Mshrs, Allocates(k), ~Allocates(l),
             mshr'[l].valid, mshr'[k].block_addr = mshr'[l].block_addr
      PROVE  FALSE
  <2>1. mshr[l].valid /\ mshr[l].block_addr = s1_req
    BY <1>2, MshrStep DEF IInv
  <2> QED BY <1>2, <2>1 DEF Allocates, MshrOf
<1>3. CASE ~Allocates(i) /\ ~Allocates(j)
  BY <1>3, MshrStep DEF IInv, MshrsAreDistinct
<1> QED BY <1>1, <1>2, <1>3

LEMMA EdgeTracked ==
  ASSUME IInv, NEW req \in Reqs, NEW back \in Wbs, NEW rd \in Reads,
         NEW busy \in BOOLEAN, Edge(req, back, rd, busy)
  PROVE  FetchIsTracked'
<1>1. TypeOK /\ mem_pend_id \in Mshrs
  BY DEF IInv, TypeOK
<1>2. /\ mem_busy' <=> (Issues(busy) \/ (mem_busy /\ ~Refilling(rd)))
      /\ mem_pend_id' = IF Issues(busy) THEN LeastOf(Unsent) ELSE mem_pend_id
  BY <1>1 DEF Edge, Issue, MemBusy, Issues, CanIssue, Refilling, TypeOK
<1>3. Refilling(rd) => mem_busy
  BY DEF Refilling
<1>4. \A i \in Mshrs : mshr[i].valid => (mshr[i].mem_sent <=> mem_busy /\ i = mem_pend_id)
  BY DEF IInv, FetchIsTracked
<1>5. CASE Issues(busy)
  <2>1. ~mem_busy /\ ~Refilling(rd) /\ LeastOf(Unsent) \in Unsent
    BY <1>1, <1>3, <1>5, MshrChoice DEF Issues, CanIssue
  <2>2. LeastOf(Unsent) \in Mshrs /\ mshr[LeastOf(Unsent)].valid
    BY <2>1 DEF Unsent
  <2>3. \A i \in Mshrs : Issuing(busy, i) <=> i = LeastOf(Unsent)
    BY <1>5 DEF Issuing, Issues
  <2>4. mshr'[LeastOf(Unsent)].valid
    BY <1>1, <2>1, <2>2, MshrStep
  <2>5. ASSUME NEW i \in Mshrs, mshr'[i].valid
        PROVE  mshr'[i].mem_sent <=> i = LeastOf(Unsent)
    <3>1. CASE Allocates(i)
      BY <1>1, <2>2, <3>1, MshrStep
    <3>2. CASE ~Allocates(i)
      BY <1>1, <1>4, <2>1, <2>3, <2>5, <3>2, MshrStep
    <3> QED BY <3>1, <3>2
  <2> QED BY <1>2, <1>5, <2>4, <2>5 DEF FetchIsTracked
<1>6. CASE ~Issues(busy)
  <2>1. \A i \in Mshrs : ~Issuing(busy, i)
    BY <1>6 DEF Issuing, Issues
  <2>2. mem_busy => mshr[mem_pend_id].valid
    BY DEF IInv, FetchIsTracked
  <2>3. mem_busy' => mshr'[mem_pend_id].valid
    BY <1>1, <1>2, <1>6, <2>2, MshrStep
  <2>4. ASSUME NEW i \in Mshrs, mshr'[i].valid
        PROVE  mshr'[i].mem_sent <=> mem_busy' /\ i = mem_pend_id
    <3>1. CASE Allocates(i)
      BY <1>1, <1>2, <1>6, <2>2, <3>1, MshrStep
    <3>2. CASE ~Allocates(i)
      BY <1>1, <1>2, <1>3, <1>4, <1>6, <2>1, <2>4, <3>2, MshrStep
    <3> QED BY <3>1, <3>2
  <2> QED BY <1>2, <1>6, <2>3, <2>4 DEF FetchIsTracked
<1> QED BY <1>5, <1>6

LEMMA StepIInv == IInv /\ [L2Next]_l2Vars => IInv'
<1> SUFFICES ASSUME IInv, [L2Next]_l2Vars PROVE IInv'
  OBVIOUS
<1>1. CASE L2Next
  <2>1. PICK req \in Reqs, back \in Wbs, rd \in Reads, busy \in BOOLEAN :
          Edge(req, back, rd, busy)
    BY <1>1 DEF L2Next, Reqs, Wbs, Reads
  <2>2. TypeOK'
    BY <2>1, EdgeType DEF IInv
  <2> QED BY <2>1, <2>2, EdgeDistinct, EdgeTracked DEF IInv
<1>2. CASE UNCHANGED l2Vars
  BY <1>2 DEF l2Vars, IInv, TypeOK, MshrsAreDistinct, FetchIsTracked
<1> QED BY <1>1, <1>2

LEMMA InitIInv == L2Init => IInv
<1> SUFFICES ASSUME L2Init PROVE IInv
  OBVIOUS
<1>1. MshrsAreDistinct /\ FetchIsTracked
  BY DEF L2Init, MshrsAreDistinct, FetchIsTracked
<1> QED BY <1>1, InitType DEF IInv

LEMMA Inductive == L2Spec => []IInv
<1> QED BY InitIInv, StepIInv, PTL DEF L2Spec

-----------------------------------------------------------------------------
(***************************************************************************)
(* The arrays, miss registers, eviction FIFO and ports of the L2 hold      *)
(* values of their types, for every replacement policy.                    *)
(***************************************************************************)
THEOREM TypeCorrect == L2Spec => []TypeOK
<1>1. IInv => TypeOK
  BY DEF IInv
<1> QED BY <1>1, Inductive, PTL

(***************************************************************************)
(* A block is fetched by one miss register at most, whatever L1 asks for   *)
(* and whenever the memory answers.                                        *)
(***************************************************************************)
THEOREM MissesAreDistinct == L2Spec => []MshrsAreDistinct
<1>1. IInv => MshrsAreDistinct
  BY DEF IInv
<1> QED BY <1>1, Inductive, PTL

(***************************************************************************)
(* The memory's answer, which carries no address, is always for the miss   *)
(* register mem_pend_id, the only one whose read has been sent.            *)
(***************************************************************************)
THEOREM AnswersFindTheirMiss == L2Spec => []FetchIsTracked
<1>1. IInv => FetchIsTracked
  BY DEF IInv
<1> QED BY <1>1, Inductive, PTL

-----------------------------------------------------------------------------
(***************************************************************************)
(* The lines of the cache over the lines of the memory, as one store: what *)
(* a refill and a write-back make of any arrays L over any memory M.       *)
(***************************************************************************)
InWay(L, w, b) == L[w][SetOf[b]].valid /\ L[w][SetOf[b]].tag = b
Present(L, b)  == \E w \in Ways : InWay(L, w, b)
Value(L, M, b) ==
  IF Present(L, b) THEN L[CHOOSE w \in Ways : InWay(L, w, b)][SetOf[b]].data
  ELSE M[b]

\* Every line is in its set, once, and a clean one agrees with the memory.
Sound(L, M) ==
  /\ L \in [Ways -> [Sets -> LineRec]] /\ M \in [Blocks -> Lines]
  /\ \A w \in Ways, s \in Sets : SetOf[L[w][s].tag] = s
  /\ \A s \in Sets, v, w \in Ways :
       L[v][s].valid /\ L[w][s].valid /\ L[v][s].tag = L[w][s].tag => v = w
  /\ \A w \in Ways, s \in Sets :
       L[w][s].valid /\ ~L[w][s].dirty => L[w][s].data = M[L[w][s].tag]

\* K is L with the line new in way w of set s; N is M after old was saved.
Put(K, L, w, s, new) == K = [L EXCEPT ![w][s] = new]
Fits(new, c, M) == /\ new.valid = TRUE /\ new.tag = c
                   /\ new.dirty = TRUE \/ new.data = M[c]
Save(N, M, old) == N = IF old.valid /\ old.dirty
                       THEN [M EXCEPT ![old.tag] = old.data] ELSE M

LEMMA ValueOfPresent ==
  ASSUME NEW L, NEW M, Sound(L, M), NEW b \in Blocks, NEW w \in Ways, InWay(L, w, b)
  PROVE  Present(L, b) /\ Value(L, M, b) = L[w][SetOf[b]].data
<1>1. Present(L, b)
  BY DEF Present
<1>2. PICK v \in Ways : v = (CHOOSE u \in Ways : InWay(L, u, b)) /\ InWay(L, v, b)
  BY <1>1 DEF Present
<1>3. SetOf[b] \in Sets
  BY SetOfType
<1>4. v = w
  BY <1>2, <1>3 DEF Sound, InWay
<1> QED BY <1>1, <1>2, <1>4 DEF Value

(***************************************************************************)
(* A line that is absent is installed in way w of its set; the line it     *)
(* displaces goes to the memory if it is dirty.                            *)
(***************************************************************************)
LEMMA InstallLine ==
  ASSUME NEW L, NEW M, Sound(L, M),
         NEW c \in Blocks, ~Present(L, c), NEW s, s = SetOf[c], NEW w \in Ways,
         NEW new \in LineRec, Fits(new, c, M),
         NEW K, Put(K, L, w, s, new), NEW N, Save(N, M, L[w][s])
  PROVE  /\ Sound(K, N)
         /\ \A b \in Blocks : Value(K, N, b) = IF b = c THEN new.data ELSE Value(L, M, b)
         /\ \A b \in Blocks : Present(K, b) => b = c \/ Present(L, b)
<1>1. /\ s \in Sets /\ L \in [Ways -> [Sets -> LineRec]] /\ M \in [Blocks -> Lines]
  BY SetOfType DEF Sound
<1>2. PICK old \in LineRec : old = L[w][s]
  BY <1>1
<1>3. /\ old.valid \in BOOLEAN /\ old.dirty \in BOOLEAN
      /\ old.tag \in Blocks /\ old.data \in Lines /\ SetOf[old.tag] = s
  BY <1>1, <1>2 DEF LineRec, Sound
<1>f. new.valid = TRUE /\ new.tag = c /\ (new.dirty = TRUE \/ new.data = M[c])
  BY DEF Fits
<1>4. K[w][s] = new /\ K \in [Ways -> [Sets -> LineRec]]
  BY <1>1 DEF Put
<1>5. ASSUME NEW v \in Ways, NEW t \in Sets, ~(v = w /\ t = s)
      PROVE  K[v][t] = L[v][t]
  BY <1>1, <1>5 DEF Put
<1>6. N \in [Blocks -> Lines]
  BY <1>1, <1>2, <1>3 DEF Save
<1>7. \A v \in Ways : ~InWay(L, v, c)
  BY DEF Present
<1>8. ~old.valid \/ old.tag # c
  BY <1>2, <1>7 DEF InWay
<1>9. ASSUME NEW b \in Blocks
      PROVE  N[b] = IF old.valid /\ old.dirty /\ b = old.tag THEN old.data ELSE M[b]
  BY <1>1, <1>2, <1>3 DEF Save
\* Which blocks are present afterwards.
<1>10. ASSUME NEW v \in Ways, NEW b \in Blocks
       PROVE  InWay(K, v, b) <=> IF v = w /\ SetOf[b] = s THEN b = c ELSE InWay(L, v, b)
  <2>1. SetOf[b] \in Sets
    BY SetOfType
  <2>2. CASE v = w /\ SetOf[b] = s
    BY <1>f, <1>4, <2>2 DEF InWay
  <2>3. CASE ~(v = w /\ SetOf[b] = s)
    <3>1. K[v][SetOf[b]] = L[v][SetOf[b]]
      BY <1>5, <2>1, <2>3
    <3> QED BY <2>3, <3>1 DEF InWay
  <2> QED BY <2>2, <2>3
<1>11. \A v \in Ways, t \in Sets : SetOf[K[v][t].tag] = t
  <2> SUFFICES ASSUME NEW v \in Ways, NEW t \in Sets PROVE SetOf[K[v][t].tag] = t
    OBVIOUS
  <2>1. CASE v = w /\ t = s
    BY <1>f, <1>4, <2>1
  <2>2. CASE ~(v = w /\ t = s)
    BY <1>5, <2>2 DEF Sound
  <2> QED BY <2>1, <2>2
<1>12. ASSUME NEW t \in Sets, NEW u \in Ways, NEW v \in Ways,
              K[u][t].valid, K[v][t].valid, K[u][t].tag = K[v][t].tag
       PROVE  u = v
  <2>1. ASSUME NEW x \in Ways, x # w, K[x][s].valid
        PROVE  K[x][s].tag # c
    <3>1. K[x][s] = L[x][s]
      BY <1>1, <1>5, <2>1
    <3> QED BY <1>7, <2>1, <3>1 DEF InWay
  <2>2. CASE t = s /\ (u = w \/ v = w)
    BY <1>f, <1>4, <1>12, <2>1, <2>2
  <2>3. CASE ~(t = s /\ (u = w \/ v = w))
    <3>1. K[u][t] = L[u][t] /\ K[v][t] = L[v][t]
      BY <1>5, <2>3
    <3> QED BY <1>12, <3>1 DEF Sound
  <2> QED BY <2>2, <2>3
<1>13. ASSUME NEW v \in Ways, NEW t \in Sets, K[v][t].valid, ~K[v][t].dirty
       PROVE  K[v][t].data = N[K[v][t].tag]
  <2>1. CASE v = w /\ t = s
    BY <1>f, <1>4, <1>8, <1>9, <1>13, <2>1
  <2>2. CASE ~(v = w /\ t = s)
    <3>1. K[v][t] = L[v][t] /\ L[v][t] \in LineRec
      BY <1>1, <1>5, <2>2
    <3>2. PICK b \in Blocks : b = L[v][t].tag
      BY <3>1 DEF LineRec
    <3>3. L[v][t].data = M[b] /\ SetOf[b] = t
      BY <1>13, <3>1, <3>2 DEF Sound
    <3>4. ~(old.valid /\ b = old.tag)
      BY <1>1, <1>2, <1>3, <1>13, <2>2, <3>1, <3>2, <3>3 DEF Sound
    <3> QED BY <1>9, <3>1, <3>2, <3>3, <3>4
  <2> QED BY <2>1, <2>2
<1>14. Sound(K, N)
  BY <1>f, <1>4, <1>6, <1>11, <1>12, <1>13 DEF Sound
<1>15. ASSUME NEW b \in Blocks, Present(K, b) PROVE b = c \/ Present(L, b)
  BY <1>10, <1>15 DEF Present
<1>16. Value(K, N, c) = new.data
  <2>1. InWay(K, w, c)
    BY <1>10
  <2>2. Value(K, N, c) = K[w][SetOf[c]].data
    BY <1>14, <2>1, ValueOfPresent
  <2> QED BY <1>f, <1>4, <2>2
<1>17. ASSUME NEW b \in Blocks, b # c PROVE Value(K, N, b) = Value(L, M, b)
  <2>1. SetOf[b] \in Sets
    BY SetOfType
  <2>2. CASE Present(K, b)
    <3>1. PICK v \in Ways : InWay(K, v, b)
      BY <2>2 DEF Present
    <3>2. ~(v = w /\ SetOf[b] = s) /\ InWay(L, v, b)
      BY <1>10, <1>17, <3>1
    <3>3. K[v][SetOf[b]] = L[v][SetOf[b]]
      BY <1>5, <2>1, <3>2
    <3>4. Value(K, N, b) = K[v][SetOf[b]].data
      BY <1>14, <3>1, ValueOfPresent
    <3>5. Value(L, M, b) = L[v][SetOf[b]].data
      BY <3>2, ValueOfPresent
    <3> QED BY <3>3, <3>4, <3>5
  <2>3. CASE ~Present(K, b) /\ Present(L, b)
    <3>1. PICK v \in Ways : InWay(L, v, b)
      BY <2>3 DEF Present
    <3>2. v = w /\ SetOf[b] = s
      BY <1>10, <2>3, <3>1 DEF Present
    <3>3. old.valid /\ old.tag = b
      BY <1>2, <3>1, <3>2 DEF InWay
    <3>4. Value(L, M, b) = old.data
      BY <1>2, <3>1, <3>2, ValueOfPresent
    <3>5. N[b] = old.data
      BY <1>1, <1>2, <1>3, <1>9, <3>3 DEF Sound
    <3> QED BY <2>3, <3>4, <3>5 DEF Value
  <2>4. CASE ~Present(K, b) /\ ~Present(L, b)
    <3>1. ~(old.valid /\ old.tag = b)
      BY <1>2, <1>3, <2>4 DEF Present, InWay
    <3> QED BY <1>9, <2>4, <3>1 DEF Value
  <2> QED BY <2>2, <2>3, <2>4
<1> QED BY <1>14, <1>15, <1>16, <1>17

\* A line that is present is overwritten and becomes dirty.
LEMMA OverwriteLine ==
  ASSUME NEW L, NEW M, Sound(L, M),
         NEW c \in Blocks, NEW w \in Ways, InWay(L, w, c), NEW s, s = SetOf[c],
         NEW new \in LineRec, new.valid = L[w][s].valid, new.tag = L[w][s].tag,
         new.dirty = TRUE,
         NEW K, Put(K, L, w, s, new)
  PROVE  /\ Sound(K, M)
         /\ \A b \in Blocks : Value(K, M, b) = IF b = c THEN new.data ELSE Value(L, M, b)
         /\ \A b \in Blocks : Present(K, b) => Present(L, b)
<1>1. s \in Sets /\ L \in [Ways -> [Sets -> LineRec]] /\ M \in [Blocks -> Lines]
  BY SetOfType DEF Sound
<1>2. K[w][s] = new /\ K \in [Ways -> [Sets -> LineRec]] /\ new.tag = c
  BY <1>1 DEF InWay, Put
<1>3. ASSUME NEW v \in Ways, NEW t \in Sets, ~(v = w /\ t = s)
      PROVE  K[v][t] = L[v][t]
  BY <1>1, <1>3 DEF Put
<1>4. ASSUME NEW v \in Ways, NEW t \in Sets
      PROVE  K[v][t].valid = L[v][t].valid /\ K[v][t].tag = L[v][t].tag
  <2>1. CASE v = w /\ t = s
    BY <1>2, <2>1
  <2>2. CASE ~(v = w /\ t = s)
    BY <1>3, <2>2
  <2> QED BY <2>1, <2>2
<1>5. ASSUME NEW v \in Ways, NEW t \in Sets, K[v][t].valid, ~K[v][t].dirty
      PROVE  K[v][t].data = M[K[v][t].tag]
  <2>1. ~(v = w /\ t = s)
    BY <1>2, <1>5
  <2>2. K[v][t] = L[v][t]
    BY <1>3, <2>1
  <2> QED BY <1>5, <2>2 DEF Sound
<1>6. Sound(K, M)
  <2>1. \A v \in Ways, t \in Sets : SetOf[K[v][t].tag] = t
    BY <1>4 DEF Sound
  <2>2. ASSUME NEW t \in Sets, NEW u \in Ways, NEW v \in Ways,
               K[u][t].valid, K[v][t].valid, K[u][t].tag = K[v][t].tag
        PROVE  u = v
    <3>1. L[u][t].valid /\ L[v][t].valid /\ L[u][t].tag = L[v][t].tag
      BY <1>4, <2>2
    <3> QED BY <3>1 DEF Sound
  <2> QED BY <1>1, <1>2, <1>5, <2>1, <2>2 DEF Sound
<1>7. ASSUME NEW v \in Ways, NEW b \in Blocks
      PROVE  InWay(K, v, b) <=> InWay(L, v, b)
  BY <1>4, SetOfType DEF InWay
<1>8. \A b \in Blocks : Present(K, b) <=> Present(L, b)
  BY <1>7 DEF Present
<1>9. ASSUME NEW b \in Blocks
      PROVE  Value(K, M, b) = IF b = c THEN new.data ELSE Value(L, M, b)
  <2>1. SetOf[b] \in Sets
    BY SetOfType
  <2>2. CASE b = c
    <3>1. Value(K, M, c) = K[w][SetOf[c]].data
      BY <1>6, <1>7, ValueOfPresent
    <3> QED BY <1>2, <2>2, <3>1
  <2>3. ASSUME b # c, NEW v \in Ways, InWay(L, v, b)
        PROVE  Value(K, M, b) = Value(L, M, b)
    <3>1. ~(v = w /\ SetOf[b] = s)
      BY <2>3 DEF InWay
    <3>2. K[v][SetOf[b]] = L[v][SetOf[b]]
      BY <1>3, <2>1, <3>1
    <3>3. Value(K, M, b) = K[v][SetOf[b]].data
      BY <1>6, <1>7, <2>3, ValueOfPresent
    <3>4. Value(L, M, b) = L[v][SetOf[b]].data
      BY <2>3, ValueOfPresent
    <3> QED BY <2>3, <3>2, <3>3, <3>4
  <2>4. CASE ~Present(L, b)
    <3>1. b # c
      BY <2>4 DEF Present
    <3> QED BY <1>8, <2>4, <3>1 DEF Value
  <2> QED BY <2>2, <2>3, <2>4 DEF Present
<1> QED BY <1>6, <1>8, <1>9

-----------------------------------------------------------------------------
(* One edge of the L2 with its simulated memory.                           *)

LEMMA HitIsPresent ==
  ASSUME NEW b \in Blocks
  PROVE  /\ hit(b) <=> Present(lines, b)
         /\ Sound(lines, backing_mem) /\ hit(b) =>
              /\ InWay(lines, LeastOf(HitWays(b)), b)
              /\ LeastOf(HitWays(b)) \in Ways
              /\ HitLine(b) = Value(lines, backing_mem, b)
<1>1. hit(b) <=> Present(lines, b)
  BY DEF hit, HitWays, Present, InWay
<1>2. ASSUME Sound(lines, backing_mem), hit(b)
      PROVE  /\ InWay(lines, LeastOf(HitWays(b)), b)
             /\ LeastOf(HitWays(b)) \in Ways
             /\ HitLine(b) = Value(lines, backing_mem, b)
  <2>1. LeastOf(HitWays(b)) \in HitWays(b)
    <3>1. HitWays(b) \in SUBSET Nat /\ HitWays(b) # {}
      BY <1>2, WaysAreNumbers DEF HitWays, hit
    <3> QED BY <3>1, LeastIsMember
  <2>2. PICK w \in Ways : w = LeastOf(HitWays(b)) /\ InWay(lines, w, b)
    BY <2>1 DEF HitWays, InWay
  <2>3. Value(lines, backing_mem, b) = lines[w][SetOf[b]].data
    BY <1>2, <2>2, ValueOfPresent
  <2> QED BY <2>2, <2>3 DEF HitLine
<1> QED BY <1>1, <1>2

\* The memory after the victim of a refill was saved.
SavedRefill(rd) ==
  IF RefillEvicts(rd)
  THEN [backing_mem EXCEPT ![Evicted(fill_idx).block] = Evicted(fill_idx).data]
  ELSE backing_mem

LEMMA RefillValues ==
  ASSUME TypeOK, ~USE_AVALON, Sound(lines, backing_mem), NEW rd \in Reads,
         Refilling(rd) => ~hit(fill_blk)
  PROVE  /\ Sound(Refilled(rd), SavedRefill(rd))
         /\ \A b \in Blocks : Value(Refilled(rd), SavedRefill(rd), b)
                                 = Value(lines, backing_mem, b)
         /\ \A b \in Blocks : Present(Refilled(rd), b) =>
              (Refilling(rd) /\ b = fill_blk) \/ Present(lines, b)
         /\ \A w \in Ways, s \in Sets : ~(Refilling(rd) /\ s = fill_idx) =>
              Refilled(rd)[w][s] = lines[w][s]
<1>1. CASE ~Refilling(rd)
  BY <1>1 DEF Refilled, SavedRefill, RefillEvicts
<1>2. CASE Refilling(rd)
  <2>1. PICK c \in Blocks : c = fill_blk
    BY FillType
  <2>2. PICK s \in Sets : s = fill_idx /\ s = SetOf[c]
    BY <2>1, FillType DEF fill_idx
  <2>3. PICK w \in Ways : w = find_install_way(s)
    BY InstallWayType
  <2>4. PICK d \in Lines : d = fill_data(rd) /\ d = backing_mem[c]
    BY <1>2, <2>1, FillType DEF fill_data
  <2>5. PICK new \in LineRec : new = [valid |-> TRUE, dirty |-> FALSE, tag |-> c,
                                     data |-> d]
    BY DEF LineRec
  <2>6. Put(Refilled(rd), lines, w, s, new)
    BY <1>2, <2>1, <2>2, <2>3, <2>4, <2>5 DEF Refilled, Put
  <2>7. Save(SavedRefill(rd), backing_mem, lines[w][s])
    BY <1>2, <2>2, <2>3 DEF SavedRefill, RefillEvicts, Save, DirtyVictim, Displaced, Evicted
  <2>8. new.valid = TRUE /\ new.tag = c /\ new.data = d /\ new.data = backing_mem[c]
    BY <2>4, <2>5
  <2>9. ~Present(lines, c)
    BY <1>2, <2>1, HitIsPresent
  <2>10. PICK K, N : K = Refilled(rd) /\ N = SavedRefill(rd)
    OBVIOUS
  <2>11. Put(K, lines, w, s, new) /\ Save(N, backing_mem, lines[w][s])
    BY <2>6, <2>7, <2>10
  <2>12. /\ Sound(K, N)
         /\ \A b \in Blocks : Value(K, N, b) = IF b = c THEN new.data
                                               ELSE Value(lines, backing_mem, b)
         /\ \A b \in Blocks : Present(K, b) => b = c \/ Present(lines, b)
    <3>1. s = SetOf[c] /\ Fits(new, c, backing_mem)
      BY <2>2, <2>8 DEF Fits
    <3> QED BY <2>9, <2>11, <3>1, InstallLine
  <2>13. Value(lines, backing_mem, c) = d
    BY <2>4, <2>9 DEF Value
  <2>14. \A v \in Ways, t \in Sets : t # s => K[v][t] = lines[v][t]
    BY <2>11 DEF Put, TypeOK
  <2> QED BY <1>2, <2>1, <2>2, <2>8, <2>10, <2>12, <2>13, <2>14
<1> QED BY <1>1, <1>2

(***************************************************************************)
(* The store of lines after an edge: what L1 handed down and the edge      *)
(* absorbs is in it, and nothing else has changed.                         *)
(***************************************************************************)
LEMMA EdgeValues ==
  ASSUME TypeOK, ~USE_AVALON, Sound(lines, backing_mem),
         NEW req, NEW down, NEW rd \in Reads, NEW busy, Edge(req, down, rd, busy),
         Refilling(rd) => ~hit(fill_blk),
         Refilling(rd) /\ Absorbs(rd) => AbsorbSet(rd) # fill_idx
  PROVE  /\ Sound(lines', backing_mem')
         /\ \A b \in Blocks : Value(lines', backing_mem', b)
              = IF Absorbs(rd) /\ b = Absorbed(rd).block THEN Absorbed(rd).data
                ELSE Value(lines, backing_mem, b)
         /\ \A b \in Blocks : Present(lines', b) =>
              \/ Refilling(rd) /\ b = fill_blk
              \/ Absorbs(rd) /\ b = Absorbed(rd).block
              \/ Present(lines, b)
<1>1. PICK L, M : L = Refilled(rd) /\ M = SavedRefill(rd)
  OBVIOUS
<1>2. /\ Sound(L, M)
      /\ \A b \in Blocks : Value(L, M, b) = Value(lines, backing_mem, b)
      /\ \A b \in Blocks : Present(L, b) =>
           (Refilling(rd) /\ b = fill_blk) \/ Present(lines, b)
      /\ \A w \in Ways, s \in Sets : ~(Refilling(rd) /\ s = fill_idx) =>
           L[w][s] = lines[w][s]
  BY <1>1, RefillValues
<1>3. lines' = NextLines(rd) /\ backing_mem' = Saved(rd)
  BY DEF Edge
<1>4. PICK K, N : K = lines' /\ N = backing_mem'
  OBVIOUS
<1>5. CASE ~Absorbs(rd)
  <2>1. K = L /\ N = M
    BY <1>1, <1>3, <1>4, <1>5
       DEF NextLines, Saved, SavedRefill, AbsorbEvicts, Installs
  <2> QED BY <1>2, <1>4, <1>5, <2>1
<1>6. CASE Absorbs(rd)
  <2>1. PICK c \in Blocks, d \in Lines :
          c = Absorbed(rd).block /\ d = Absorbed(rd).data
    BY <1>6, AbsorbType
  <2>2. PICK s \in Sets : s = AbsorbSet(rd) /\ s = SetOf[c]
    BY <1>6, <2>1, AbsorbType DEF AbsorbSet
  <2>3. PICK w \in Ways : w = AbsorbWay(rd)
    BY <1>6, AbsorbType
  <2>4. \A v \in Ways : L[v][s] = lines[v][s]
    BY <1>2, <1>6, <2>2
  <2>5. \A v \in Ways : InWay(L, v, c) <=> InWay(lines, v, c)
    BY <2>2, <2>4 DEF InWay
  <2>6. Present(L, c) <=> hit(c)
    BY <2>5, HitIsPresent DEF Present
  <2>7. L \in [Ways -> [Sets -> LineRec]]
    BY <1>2 DEF Sound
  <2>8. CASE hit(c)
    <3>1. ~Installs(rd) /\ InWay(L, w, c)
      BY <2>1, <2>3, <2>5, <2>8, HitIsPresent DEF Installs, AbsorbWay
    <3>2. PICK old \in LineRec : old = L[w][s]
      BY <2>7
    <3>3. PICK new \in LineRec : new = [valid |-> old.valid, dirty |-> TRUE,
                                       tag |-> old.tag, data |-> d]
      BY DEF LineRec
    <3>4. Put(K, L, w, s, new)
      <4>1. K = [L EXCEPT ![w][s] = [valid |-> @.valid, dirty |-> TRUE,
                                     tag |-> @.tag, data |-> d]]
        BY <1>1, <1>3, <1>4, <1>6, <2>1, <2>2, <2>3, <3>1 DEF NextLines
      <4> QED BY <2>7, <3>2, <3>3, <4>1 DEF Put
    <3>5. N = M
      BY <1>1, <1>3, <1>4, <3>1 DEF Saved, SavedRefill, AbsorbEvicts
    <3>6. /\ new.valid = L[w][s].valid /\ new.tag = L[w][s].tag
          /\ new.dirty = TRUE /\ new.data = d
      BY <3>2, <3>3
    <3>7. /\ Sound(K, M)
          /\ \A b \in Blocks : Value(K, M, b) = IF b = c THEN new.data ELSE Value(L, M, b)
          /\ \A b \in Blocks : Present(K, b) => Present(L, b)
      BY <1>2, <2>2, <3>1, <3>4, <3>6, OverwriteLine
    <3> QED BY <1>2, <1>4, <1>6, <2>1, <3>5, <3>6, <3>7
  <2>9. CASE ~hit(c)
    <3>1. Installs(rd) /\ w = find_install_way(s) /\ ~Present(L, c)
      BY <1>6, <2>1, <2>2, <2>3, <2>6, <2>9 DEF Installs, AbsorbWay
    <3>2. PICK new \in LineRec : new = [valid |-> TRUE, dirty |-> TRUE,
                                       tag |-> c, data |-> d]
      BY DEF LineRec
    <3>3. Put(K, L, w, s, new)
      BY <1>1, <1>3, <1>4, <1>6, <2>1, <2>2, <2>3, <3>1, <3>2 DEF NextLines, Put
    <3>4. Save(N, M, L[w][s])
      <4>1. N = IF AbsorbEvicts(rd)
                THEN [M EXCEPT ![Evicted(s).block] = Evicted(s).data] ELSE M
        BY <1>1, <1>3, <1>4, <2>2 DEF Saved, SavedRefill
      <4>2. AbsorbEvicts(rd) <=> lines[w][s].valid /\ lines[w][s].dirty
        BY <2>2, <3>1 DEF AbsorbEvicts, DirtyVictim, Displaced
      <4>3. Evicted(s).block = lines[w][s].tag /\ Evicted(s).data = lines[w][s].data
        BY <3>1 DEF Evicted, Displaced
      <4>4. L[w][s] = lines[w][s]
        BY <2>4
      <4> QED BY <4>1, <4>2, <4>3, <4>4 DEF Save
    <3>5. new.valid = TRUE /\ new.tag = c /\ new.data = d /\ s = SetOf[c]
      BY <2>2, <3>2
    <3>6. Fits(new, c, M)
      BY <3>2 DEF Fits
    <3>7. /\ Sound(K, N)
          /\ \A b \in Blocks : Value(K, N, b) = IF b = c THEN new.data ELSE Value(L, M, b)
          /\ \A b \in Blocks : Present(K, b) => b = c \/ Present(L, b)
      <4>1. Sound(L, M) /\ s = SetOf[c] /\ ~Present(L, c)
        BY <1>2, <3>1, <3>5
      <4> QED BY <3>3, <3>4, <3>6, <4>1, InstallLine
    <3> QED BY <1>2, <1>4, <1>6, <2>1, <3>5, <3>7
  <2> QED BY <2>8, <2>9
<1> QED BY <1>5, <1>6

-----------------------------------------------------------------------------
(***************************************************************************)
(* The invariant under L1's traffic.  A request in flight is in one place  *)
(* only; two blocks at most are being fetched, which bounds how close two  *)
(* write-backs follow each other, so that a write-back that is put off     *)
(* never meets another; and no write-back overtakes a fetch of its block.  *)
(***************************************************************************)
Wanted == unsent \cup sent

PortTypeOK ==
  /\ held \subseteq Blocks /\ unsent \subseteq Blocks /\ sent \subseteq Blocks
  /\ l2_req \in Reqs /\ wb \in Wbs /\ resp_for \in Reqs /\ defer_for \in Reqs

InOnePlace ==
  /\ l2_req # NoBlock => /\ l2_req \in sent /\ MshrOf(l2_req) = {}
                         /\ l2_req \notin {s1_req, defer_for, resp_for}
  /\ s1_req # NoBlock => /\ s1_req \in sent /\ MshrOf(s1_req) = {}
                         /\ s1_req \notin {defer_for, resp_for}
  /\ \A i \in Mshrs : mshr[i].valid => mshr[i].block_addr \in sent \ {defer_for, resp_for}
  /\ defer_for # NoBlock => defer_for \in sent \ {resp_for}
  /\ resp_for # NoBlock => resp_for \in sent
  /\ (defer = NoLine) <=> (defer_for = NoBlock)
  /\ (l2_resp = NoLine) <=> (resp_for = NoBlock)

FewWanted ==
  /\ unsent \cap sent = {} /\ held \cap Wanted = {}
  /\ IsFiniteSet(Wanted) /\ Cardinality(Wanted) <= 2
  /\ wb # NoWb => Cardinality(Wanted) <= 1
  /\ wb # NoWb /\ s1_wb # NoWb => sent = {}

Downward ==
  /\ wb # NoWb => wb.block \notin Wanted \cup held
  /\ s1_wb # NoWb => s1_wb.block \notin sent
  /\ defer_wb # NoWb => /\ s1_wb = NoWb /\ mem_busy = FALSE
                        /\ defer_wb.block \in sent => defer_wb.block = l2_req

OneStore ==
  /\ evict = <<>> /\ ext_mem_wr_req = NoWb
  /\ Sound(lines, backing_mem)
  /\ \A i \in Mshrs : mshr[i].valid => ~hit(mshr[i].block_addr)
  /\ defer # NoLine => defer = Newest(backing_mem, defer_for)

CInv == IInv /\ PortTypeOK /\ InOnePlace /\ FewWanted /\ Downward /\ OneStore

-----------------------------------------------------------------------------
(* L1 in one cycle.                                                        *)

\* What L1 hands down is a block it held.
HandsDown ==
  \/ wb' = NoWb
  \/ \E v \in held, l \in Lines : wb' = [block |-> v, data |-> l] /\ v \notin held'

LEMMA ClientStep ==
  ASSUME PortTypeOK, InOnePlace, FewWanted, NEW miss \in Reqs, ClientEdge(miss)
  PROVE  /\ l2_req' = NoBlock \/ l2_req' \in unsent
         /\ sent' = (sent \cup ({l2_req'} \ {NoBlock})) \ {resp_for}
         /\ unsent' = (unsent \ {l2_req'}) \cup ({miss} \ {NoBlock})
         /\ Wanted' = (Wanted \ {resp_for}) \cup ({miss} \ {NoBlock})
         /\ miss # NoBlock => miss \notin held \cup Wanted /\ Cardinality(Wanted) < 2
         /\ held' \subseteq held \cup ({resp_for} \ {NoBlock})
         /\ HandsDown /\ (wb' # NoWb => resp_for # NoBlock)
<1>1. l2_req' = NoBlock \/ l2_req' \in unsent
  BY DEF ClientEdge, Request
<1>2. NoBlock \notin sent /\ NoBlock \notin unsent /\ NoBlock \notin held
  BY L2DataAssumption DEF PortTypeOK
<1>3. sent' = (sent \cup ({l2_req'} \ {NoBlock})) \ {resp_for}
  BY <1>2 DEF ClientEdge, InOnePlace
<1>4. /\ unsent' = (unsent \ {l2_req'}) \cup ({miss} \ {NoBlock})
      /\ miss # NoBlock => miss \notin held \cup Wanted /\ Cardinality(Wanted) < L1Mshrs
  BY DEF ClientEdge, MissOf, NoMiss, Wanted
<1>5. miss # NoBlock => Cardinality(Wanted) < 2
  <2>1. Cardinality(Wanted) \in Nat
    BY FS_CardinalityType DEF FewWanted
  <2> QED BY <1>4, <2>1, L1SizeAssumption
<1>6. Wanted' = (Wanted \ {resp_for}) \cup ({miss} \ {NoBlock})
  <2>1. resp_for # NoBlock => resp_for \in sent /\ resp_for \notin unsent
    BY DEF InOnePlace, FewWanted
  <2> QED BY <1>1, <1>2, <1>3, <1>4, <2>1 DEF Wanted
<1>7. \A b \in Blocks : Contents(b) \subseteq Lines
  BY L2DataAssumption DEF Contents
<1>8. CASE l2_resp = NoLine
  <2>1. wb' = NoWb /\ held' = held
    BY <1>8 DEF ClientEdge, Receive
  <2> QED BY <1>1, <1>3, <1>4, <1>5, <1>6, <2>1 DEF HandsDown
<1>9. CASE l2_resp # NoLine
  <2>1. resp_for # NoBlock /\ resp_for \in sent /\ resp_for \notin held
    BY <1>9 DEF InOnePlace, FewWanted, Wanted
  <2>2. CASE Keep(resp_for)
    BY <1>1, <1>3, <1>4, <1>5, <1>6, <2>1, <2>2 DEF Keep, HandsDown
  <2>3. ASSUME NEW v \in held, Drop(resp_for, v)
        PROVE  held' \subseteq held \cup ({resp_for} \ {NoBlock}) /\ HandsDown
    <3>1. held' = (held \ {v}) \cup {resp_for} /\ v \notin held' /\ v \in Blocks
      BY <2>1, <2>3 DEF Drop, PortTypeOK
    <3>2. wb' = NoWb \/ \E l \in Lines : wb' = [block |-> v, data |-> l]
      BY <1>7, <2>3, <3>1 DEF Drop
    <3> QED BY <2>1, <3>1, <3>2 DEF HandsDown
  <2>4. Keep(resp_for) \/ \E v \in held : Drop(resp_for, v)
    BY <1>9 DEF ClientEdge, Receive
  <2> QED BY <1>1, <1>3, <1>4, <1>5, <1>6, <2>1, <2>2, <2>3, <2>4
<1> QED BY <1>8, <1>9

LEMMA FewWantedStep ==
  ASSUME PortTypeOK, InOnePlace, FewWanted, NEW miss \in Reqs, ClientEdge(miss),
         s1_wb' = wb
  PROVE  /\ held' \subseteq Blocks /\ unsent' \subseteq Blocks /\ sent' \subseteq Blocks
         /\ l2_req' \in Reqs /\ wb' \in Wbs
         /\ FewWanted' /\ (wb' # NoWb => wb'.block \notin Wanted' \cup held')
         /\ wb' # NoWb => wb'.block \in held
<1>1. /\ l2_req' = NoBlock \/ l2_req' \in unsent
      /\ sent' = (sent \cup ({l2_req'} \ {NoBlock})) \ {resp_for}
      /\ unsent' = (unsent \ {l2_req'}) \cup ({miss} \ {NoBlock})
      /\ Wanted' = (Wanted \ {resp_for}) \cup ({miss} \ {NoBlock})
      /\ miss # NoBlock => miss \notin held \cup Wanted /\ Cardinality(Wanted) < 2
      /\ held' \subseteq held \cup ({resp_for} \ {NoBlock})
      /\ HandsDown /\ (wb' # NoWb => resp_for # NoBlock)
  BY ClientStep
<1>2. /\ NoBlock \notin Blocks
      /\ unsent \cap sent = {} /\ held \cap Wanted = {}
      /\ resp_for # NoBlock => resp_for \in sent
  BY L2DataAssumption DEF InOnePlace, FewWanted
<1>3. /\ held' \subseteq Blocks /\ unsent' \subseteq Blocks /\ sent' \subseteq Blocks
      /\ l2_req' \in Reqs
  BY <1>1, <1>2 DEF PortTypeOK, Reqs
<1>4. wb' \in Wbs /\ (wb' # NoWb => wb'.block \in held /\ wb'.block \notin held')
  BY <1>1 DEF HandsDown, PortTypeOK, Wbs, WriteBacks
<1>5. wb' # NoWb => wb'.block \notin Wanted'
  BY <1>1, <1>2, <1>4
<1>6. unsent' \cap sent' = {}
  BY <1>1, <1>2 DEF Wanted
<1>7. held' \cap Wanted' = {}
  BY <1>1, <1>2 DEF Wanted
\* How many are wanted.
<1>8. PICK W : W = Wanted /\ IsFiniteSet(W) /\ Cardinality(W) \in Nat
             /\ Cardinality(W) <= 2 /\ (wb # NoWb => Cardinality(W) <= 1)
  BY FS_CardinalityType DEF FewWanted
<1>9. PICK R : R = W \ {resp_for} /\ IsFiniteSet(R) /\ Cardinality(R) \in Nat
             /\ Cardinality(R) = IF resp_for \in W THEN Cardinality(W) - 1
                                 ELSE Cardinality(W)
  BY <1>8, FS_RemoveElement, FS_CardinalityType
<1>10. resp_for # NoBlock => Cardinality(R) = Cardinality(W) - 1
  BY <1>2, <1>8, <1>9 DEF Wanted
<1>11. IsFiniteSet(Wanted') /\ Cardinality(Wanted') \in Nat
       /\ Cardinality(Wanted') <= IF miss = NoBlock THEN Cardinality(R)
                                  ELSE Cardinality(R) + 1
  <2>1. CASE miss = NoBlock
    <3>1. Wanted' = R
      BY <1>1, <1>8, <1>9, <2>1
    <3> QED BY <1>9, <2>1, <3>1
  <2>2. CASE miss # NoBlock
    <3>1. Wanted' = R \cup {miss}
      BY <1>1, <1>8, <1>9, <2>2
    <3>2. /\ IsFiniteSet(R \cup {miss})
          /\ Cardinality(R \cup {miss}) = IF miss \in R THEN Cardinality(R)
                                           ELSE Cardinality(R) + 1
      BY <1>9, FS_AddElement
    <3> QED BY <1>9, <2>2, <3>1, <3>2
  <2> QED BY <2>1, <2>2
<1>12. Cardinality(R) <= Cardinality(W) /\ (miss # NoBlock => Cardinality(W) < 2)
  BY <1>1, <1>8, <1>9
<1>13. Cardinality(Wanted') <= 2 /\ (wb' # NoWb => Cardinality(Wanted') <= 1)
  BY <1>1, <1>8, <1>9, <1>10, <1>11, <1>12
<1>14. ASSUME wb' # NoWb, wb # NoWb PROVE sent' = {}
  <2>1. resp_for # NoBlock /\ Cardinality(R) = 0
    BY <1>1, <1>8, <1>9, <1>10, <1>14
  <2>2. R = {}
    BY <1>9, <2>1, FS_EmptySet
  <2>3. unsent = {} /\ sent \subseteq {resp_for}
    BY <1>2, <1>8, <1>9, <2>1, <2>2 DEF Wanted
  <2> QED BY <1>1, <2>3
<1>15. FewWanted'
  BY <1>6, <1>7, <1>11, <1>13, <1>14 DEF FewWanted
<1> QED BY <1>3, <1>4, <1>5, <1>15

-----------------------------------------------------------------------------
(* The registers of the L2 in one cycle.                                   *)

\* The L2 hears L1, and its memory is the simulated one.
ClientL2Step(miss) ==
  /\ ClientEdge(miss) /\ Label(NoLine) /\ Edge(l2_req, wb, NoLine, FALSE)

\* A refill is for a valid MSHR, a hit for the latched request.
LEMMA Sources ==
  ASSUME CInv
  PROVE  /\ Refilling(NoLine) => /\ mem_busy /\ defer = NoLine
                                 /\ mem_pend_id \in Mshrs /\ mshr[mem_pend_id].valid
                                 /\ fill_blk = mshr[mem_pend_id].block_addr
                                 /\ fill_blk \in sent \ {defer_for, resp_for}
                                 /\ fill_blk # l2_req /\ fill_blk # s1_req
                                 /\ fill_blk # NoBlock /\ ~hit(fill_blk)
         /\ ReadHit => s1_req \in sent /\ s1_req # NoBlock /\ defer = NoLine /\ hit(s1_req)
         /\ ReadMiss => s1_req \in sent /\ s1_req # NoBlock /\ ~hit(s1_req)
         /\ NoBlock \notin sent
<1>1. TypeOK /\ FetchIsTracked /\ NoBlock \notin sent
  BY L2DataAssumption DEF CInv, IInv, PortTypeOK
<1>2. ASSUME Refilling(NoLine)
      PROVE  /\ mem_busy /\ defer = NoLine
             /\ mem_pend_id \in Mshrs /\ mshr[mem_pend_id].valid
             /\ fill_blk = mshr[mem_pend_id].block_addr
             /\ fill_blk \in sent \ {defer_for, resp_for}
             /\ fill_blk # l2_req /\ fill_blk # s1_req
             /\ fill_blk # NoBlock /\ ~hit(fill_blk)
  <2>1. mem_busy /\ defer = NoLine
    BY <1>2 DEF Refilling
  <2>2. /\ mem_pend_id \in Mshrs /\ mshr[mem_pend_id].valid
        /\ fill_blk = mshr[mem_pend_id].block_addr
    BY <1>1, <2>1 DEF TypeOK, FetchIsTracked, fill_blk
  <2>3. fill_blk \in sent \ {defer_for, resp_for} /\ ~hit(fill_blk)
    BY <2>2 DEF CInv, InOnePlace, OneStore
  <2>4. mem_pend_id \in MshrOf(fill_blk)
    BY <2>2 DEF MshrOf
  <2>5. fill_blk # l2_req /\ fill_blk # s1_req
    BY <1>1, <2>3, <2>4 DEF CInv, InOnePlace
  <2> QED BY <1>1, <2>1, <2>2, <2>3, <2>5
<1>3. /\ ReadHit => s1_req \in sent /\ s1_req # NoBlock /\ defer = NoLine /\ hit(s1_req)
      /\ ReadMiss => s1_req \in sent /\ s1_req # NoBlock /\ ~hit(s1_req)
  BY DEF ReadHit, ReadMiss, Looked, CInv, InOnePlace
<1> QED BY <1>1, <1>2, <1>3

\* What the MSHRs hold afterwards.
LEMMA MshrSources ==
  ASSUME CInv, NEW req \in Reqs, NEW down \in Wbs, NEW busy \in BOOLEAN,
         Edge(req, down, NoLine, busy), NEW i \in Mshrs, mshr'[i].valid
  PROVE  \/ /\ ReadMiss /\ MshrOf(s1_req) = {} /\ mshr'[i].block_addr = s1_req
         \/ /\ mshr[i].valid /\ mshr'[i].block_addr = mshr[i].block_addr
            /\ Refilling(NoLine) => fill_blk # mshr[i].block_addr
<1>1. TypeOK /\ MshrsAreDistinct /\ NoLine \in Reads
  BY DEF CInv, IInv, Reads
<1>2. CASE Allocates(i)
  BY <1>1, <1>2, MshrStep DEF Allocates
<1>3. CASE ~Allocates(i)
  <2>1. /\ mshr[i].valid /\ ~(Refilling(NoLine) /\ i = mem_pend_id)
        /\ mshr'[i].block_addr = mshr[i].block_addr
    BY <1>1, <1>3, MshrStep
  <2>2. Refilling(NoLine) => fill_blk # mshr[i].block_addr
    BY <1>1, <2>1, Sources DEF MshrsAreDistinct
  <2> QED BY <2>1, <2>2
<1> QED BY <1>2, <1>3

LEMMA InOnePlaceStep ==
  ASSUME CInv, NEW miss \in Reqs, ClientL2Step(miss)
  PROVE  InOnePlace' /\ resp_for' \in Reqs /\ defer_for' \in Reqs
<1>1. /\ l2_req' = NoBlock \/ l2_req' \in unsent
      /\ sent' = (sent \cup ({l2_req'} \ {NoBlock})) \ {resp_for}
  BY ClientStep DEF CInv, ClientL2Step
<1>2. /\ unsent \cap sent = {} /\ NoBlock \notin unsent /\ sent \subseteq Blocks
      /\ resp_for # NoBlock => resp_for \in sent
  BY L2DataAssumption DEF CInv, FewWanted, PortTypeOK, InOnePlace
<1>3. TypeOK /\ NoLine \in Reads /\ l2_req \in Reqs /\ wb \in Wbs
  BY DEF CInv, IInv, PortTypeOK, Reads
<1>4. s1_req' = l2_req /\ Edge(l2_req, wb, NoLine, FALSE) /\ Respond(NoLine)
  BY DEF ClientL2Step, Edge
<1>5. /\ resp_for' = IF defer # NoLine THEN defer_for
                     ELSE IF Refilling(NoLine) THEN fill_blk
                     ELSE IF ReadHit THEN s1_req ELSE NoBlock
      /\ defer_for' = IF Refilling(NoLine) /\ ReadHit THEN s1_req ELSE NoBlock
  BY DEF ClientL2Step, Label
\* Where the requests in flight are now.
<1>6. /\ l2_req # NoBlock => /\ l2_req \in sent /\ MshrOf(l2_req) = {}
                             /\ l2_req \notin {s1_req, defer_for, resp_for}
      /\ s1_req # NoBlock => /\ s1_req \in sent /\ MshrOf(s1_req) = {}
                             /\ s1_req \notin {defer_for, resp_for}
      /\ \A i \in Mshrs : mshr[i].valid =>
           mshr[i].block_addr \in sent \ {defer_for, resp_for}
      /\ defer_for # NoBlock => defer_for \in sent \ {resp_for}
      /\ (defer = NoLine) <=> (defer_for = NoBlock)
  BY DEF CInv, InOnePlace
\* Everything that moves was sent before and is not answered yet.
<1>7. \A b : b \in sent /\ b # resp_for => b \in sent' /\ b # l2_req'
  BY <1>1, <1>2, Sources
<1>8. resp_for' = NoBlock \/ resp_for' \in sent \ {resp_for}
  BY <1>5, <1>6, Sources
<1>9. defer_for' = NoBlock \/ defer_for' \in sent \ {resp_for}
  BY <1>5, <1>6, Sources
<1>10. ASSUME NEW i \in Mshrs, mshr'[i].valid
       PROVE  /\ mshr'[i].block_addr \in sent \ {resp_for}
              /\ mshr'[i].block_addr \notin {l2_req, defer_for', resp_for'}
  <2>1. CASE ReadMiss /\ MshrOf(s1_req) = {} /\ mshr'[i].block_addr = s1_req
    <3>1. s1_req \in sent /\ s1_req # NoBlock /\ ~ReadHit
      BY <2>1, Sources DEF ReadHit, ReadMiss
    <3>2. s1_req \notin {l2_req, defer_for, resp_for}
      BY <1>6, <3>1
    <3> QED BY <1>5, <2>1, <3>1, <3>2, Sources
  <2>2. CASE /\ mshr[i].valid /\ mshr'[i].block_addr = mshr[i].block_addr
             /\ Refilling(NoLine) => fill_blk # mshr[i].block_addr
    <3>1. i \in MshrOf(mshr[i].block_addr)
      BY <2>2 DEF MshrOf
    <3>2. mshr[i].block_addr \in sent \ {defer_for, resp_for}
      BY <1>6, <2>2
    <3>3. mshr[i].block_addr # NoBlock
      BY <3>2, Sources
    <3>4. mshr[i].block_addr # l2_req /\ mshr[i].block_addr # s1_req
      BY <1>6, <3>1, <3>3
    <3> QED BY <1>5, <2>2, <3>2, <3>3, <3>4
  <2> QED BY <1>3, <1>4, <1>10, <2>1, <2>2, MshrSources
\* The conjuncts one by one.
<1>11. l2_req' # NoBlock => /\ l2_req' \in sent' /\ MshrOf(l2_req)' = {}
                            /\ l2_req' \notin {s1_req', defer_for', resp_for'}
  <2> SUFFICES ASSUME l2_req' # NoBlock
               PROVE  /\ l2_req' \in sent' /\ MshrOf(l2_req)' = {}
                      /\ l2_req' \notin {s1_req', defer_for', resp_for'}
    OBVIOUS
  <2>1. l2_req' \in unsent /\ l2_req' \notin sent /\ l2_req' # resp_for
    BY <1>1, <1>2
  <2>2. l2_req' \in sent'
    BY <1>1, <2>1
  <2>3. MshrOf(l2_req)' = {}
    BY <1>10, <2>1 DEF MshrOf
  <2> QED BY <1>4, <1>6, <1>8, <1>9, <2>1, <2>2, <2>3 DEF MshrOf
<1>12. s1_req' # NoBlock => /\ s1_req' \in sent' /\ MshrOf(s1_req)' = {}
                            /\ s1_req' \notin {defer_for', resp_for'}
  <2> SUFFICES ASSUME l2_req # NoBlock
               PROVE  /\ l2_req \in sent' /\ MshrOf(s1_req)' = {}
                      /\ l2_req \notin {defer_for', resp_for'}
    BY <1>4
  <2>1. MshrOf(s1_req)' = {}
    BY <1>4, <1>10 DEF MshrOf
  <2>2. l2_req \notin {defer_for', resp_for'}
    BY <1>5, <1>6, Sources
  <2> QED BY <1>6, <1>7, <2>1, <2>2
<1>13. \A i \in Mshrs : mshr'[i].valid =>
         mshr'[i].block_addr \in sent' \ {defer_for', resp_for'}
  BY <1>7, <1>10
<1>14. defer_for' # NoBlock => defer_for' \in sent' \ {resp_for'}
  BY <1>5, <1>7, <1>9, Sources
<1>15. resp_for' # NoBlock => resp_for' \in sent'
  BY <1>7, <1>8
<1>16. ReadHit => HitLine(s1_req) \in Lines
  BY <1>2, <1>3, HitLineType, Sources
<1>17. Refilling(NoLine) => fill_data(NoLine) \in Lines
  BY <1>3, FillType
<1>18. (defer' = NoLine) <=> (defer_for' = NoBlock)
  BY <1>4, <1>5, <1>16, L2DataAssumption, Sources DEF Respond
<1>19. (l2_resp' = NoLine) <=> (resp_for' = NoBlock)
  BY <1>4, <1>5, <1>6, <1>16, <1>17, L2DataAssumption, Sources DEF Respond
<1>20. resp_for' \in Reqs /\ defer_for' \in Reqs
  BY <1>2, <1>8, <1>9 DEF Reqs
<1>21. InOnePlace'
  BY <1>11, <1>12, <1>13, <1>14, <1>15, <1>18, <1>19 DEF InOnePlace
<1> QED BY <1>20, <1>21

-----------------------------------------------------------------------------
(* The lines in one cycle.                                                 *)

\* A write-back never meets the refill of its set on the way in.
LEMMA NoCollision ==
  ASSUME CInv, Refilling(NoLine), Absorbs(NoLine)
  PROVE  AbsorbSet(NoLine) # fill_idx
<1>1. mem_busy
  BY DEF Refilling
<1>2. CASE s1_wb = NoWb
  <2>1. defer_wb # NoWb
    BY <1>2 DEF Absorbs, Absorbed
  <2> QED BY <1>1, <2>1 DEF CInv, Downward
<1>3. CASE s1_wb # NoWb
  <2>1. ~Collides(NoLine) /\ Absorbed(NoLine) = s1_wb
    BY <1>3 DEF Absorbs, Absorbed
  <2> QED BY <1>3, <2>1 DEF Collides, AbsorbSet
<1> QED BY <1>2, <1>3

\* What is absorbed is no block whose fetch has reached the L2.
LEMMA AbsorbedNotFetched ==
  ASSUME CInv, Absorbs(NoLine)
  PROVE  Absorbed(NoLine).block \in sent => Absorbed(NoLine).block = l2_req
<1>1. CASE s1_wb = NoWb
  BY <1>1 DEF Absorbs, Absorbed, CInv, Downward
<1>2. CASE s1_wb # NoWb
  BY <1>2 DEF Absorbs, Absorbed, CInv, Downward
<1> QED BY <1>1, <1>2

LEMMA DownwardStep ==
  ASSUME CInv, NEW miss \in Reqs, ClientL2Step(miss)
  PROVE  Downward'
<1>1. /\ l2_req' = NoBlock \/ l2_req' \in unsent
      /\ sent' = (sent \cup ({l2_req'} \ {NoBlock})) \ {resp_for}
  BY ClientStep DEF CInv, ClientL2Step
<1>2. s1_wb' = wb /\ DeferWb(NoLine)
  BY DEF ClientL2Step, Edge
<1>3. wb' # NoWb => wb'.block \notin (Wanted \cup held)'
  BY <1>2, FewWantedStep DEF CInv, ClientL2Step
<1>4. s1_wb' # NoWb => s1_wb'.block \notin sent'
  BY <1>1, <1>2 DEF CInv, Downward, Wanted
<1>5. ASSUME defer_wb' # NoWb
      PROVE  /\ s1_wb' = NoWb /\ mem_busy' = FALSE
             /\ defer_wb'.block \in sent' => defer_wb'.block = l2_req'
  <2>1. s1_wb # NoWb /\ Collides(NoLine) /\ defer_wb' = s1_wb
    BY <1>2, <1>5 DEF DeferWb, CInv, Downward
  <2>2. Refilling(NoLine)
    BY <2>1 DEF Collides
  <2>3. sent # {} /\ mem_busy
    BY <2>2, Sources
  <2>4. wb = NoWb
    BY <2>1, <2>3 DEF CInv, FewWanted
  <2>5. mem_busy' = FALSE
    BY <2>2, <2>3 DEF ClientL2Step, Edge, Issue, MemBusy, Issues, CanIssue
  <2>6. s1_wb.block \notin sent
    BY <2>1 DEF CInv, Downward
  <2> QED BY <1>1, <1>2, <2>1, <2>4, <2>5, <2>6
<1> QED BY <1>3, <1>4, <1>5 DEF Downward

\* The newest version of a line: on its way in, or in the one store.
LEMMA NewestIsOneOf ==
  ASSUME evict = <<>>, ext_mem_wr_req = NoWb, Sound(lines, backing_mem), NEW b \in Blocks
  PROVE  Newest(backing_mem, b) = IF wb.block = b THEN wb.data
                                  ELSE IF s1_wb.block = b THEN s1_wb.data
                                  ELSE IF defer_wb.block = b THEN defer_wb.data
                                  ELSE Value(lines, backing_mem, b)
<1>1. EvictedAs(b) = {} /\ NoWb.block # b
  BY L2DataAssumption DEF EvictedAs, NoWb
<1>2. (IF hit(b) THEN HitLine(b) ELSE backing_mem[b]) = Value(lines, backing_mem, b)
  BY HitIsPresent DEF Value
<1> QED BY <1>1, <1>2 DEF Newest

LEMMA NewestIsOneOfThen ==
  (\A b \in Blocks : evict = <<>> /\ ext_mem_wr_req = NoWb /\ Sound(lines, backing_mem)
     => Newest(backing_mem, b) = IF wb.block = b THEN wb.data
                                 ELSE IF s1_wb.block = b THEN s1_wb.data
                                 ELSE IF defer_wb.block = b THEN defer_wb.data
                                 ELSE Value(lines, backing_mem, b))'
<1>1. \A b \in Blocks : evict = <<>> /\ ext_mem_wr_req = NoWb /\ Sound(lines, backing_mem)
        => Newest(backing_mem, b) = IF wb.block = b THEN wb.data
                                    ELSE IF s1_wb.block = b THEN s1_wb.data
                                    ELSE IF defer_wb.block = b THEN defer_wb.data
                                    ELSE Value(lines, backing_mem, b)
  BY NewestIsOneOf
<1> QED BY <1>1, PTL

\* A block whose request has left L1's port has its newest version there.
LEMMA FetchedIsNewest ==
  ASSUME CInv, NEW b \in sent, b # l2_req
  PROVE  b \in Blocks /\ Newest(backing_mem, b) = Value(lines, backing_mem, b)
<1>1. b \in Blocks /\ NoWb.block # b
  BY L2DataAssumption DEF CInv, PortTypeOK, NoWb
<1>2. wb.block # b /\ s1_wb.block # b /\ defer_wb.block # b
  BY <1>1 DEF CInv, Downward, Wanted
<1> QED BY <1>1, <1>2, NewestIsOneOf DEF CInv, OneStore

LEMMA LinesStep ==
  ASSUME ~USE_AVALON, CInv, NEW miss \in Reqs, ClientL2Step(miss)
  PROVE  /\ evict' = <<>> /\ ext_mem_wr_req' = NoWb
         /\ Sound(lines', backing_mem')
         /\ \A b \in Blocks : Newest(backing_mem, b)'
              = IF wb' # NoWb /\ wb'.block = b THEN wb'.data ELSE Newest(backing_mem, b)
         /\ \A b \in Blocks : Present(lines', b) =>
              \/ Refilling(NoLine) /\ b = fill_blk
              \/ Absorbs(NoLine) /\ b = Absorbed(NoLine).block
              \/ Present(lines, b)
<1>1. Edge(l2_req, wb, NoLine, FALSE) /\ TypeOK /\ NoLine \in Reads
  BY DEF ClientL2Step, CInv, IInv, Reads
<1>2. evict = <<>> /\ ext_mem_wr_req = NoWb /\ Sound(lines, backing_mem)
  BY DEF CInv, OneStore
<1>3. evict' = <<>> /\ ext_mem_wr_req' = NoWb
  BY <1>1, <1>2 DEF Edge, NextEvict, Draining, Issue
<1>4. /\ Sound(lines', backing_mem')
      /\ \A b \in Blocks : Value(lines', backing_mem', b)
           = IF Absorbs(NoLine) /\ b = Absorbed(NoLine).block THEN Absorbed(NoLine).data
             ELSE Value(lines, backing_mem, b)
      /\ \A b \in Blocks : Present(lines', b) =>
           \/ Refilling(NoLine) /\ b = fill_blk
           \/ Absorbs(NoLine) /\ b = Absorbed(NoLine).block
           \/ Present(lines, b)
  <2>1. Refilling(NoLine) => ~hit(fill_blk)
    BY Sources
  <2>2. Refilling(NoLine) /\ Absorbs(NoLine) => AbsorbSet(NoLine) # fill_idx
    BY NoCollision
  <2> QED BY <1>1, <1>2, <2>1, <2>2, EdgeValues
<1>5. s1_wb' = wb /\ DeferWb(NoLine)
  BY <1>1 DEF Edge
<1>6. s1_wb # NoWb => defer_wb = NoWb
  BY DEF CInv, Downward
<1>7. ASSUME NEW b \in Blocks
      PROVE  Newest(backing_mem, b)'
               = IF wb' # NoWb /\ wb'.block = b THEN wb'.data ELSE Newest(backing_mem, b)
  <2>1. NoWb.block # b
    BY L2DataAssumption DEF NoWb
  <2>2. PICK x : x = Value(lines, backing_mem, b)
    OBVIOUS
  <2>3. Newest(backing_mem, b) = IF wb.block = b THEN wb.data
                                 ELSE IF s1_wb.block = b THEN s1_wb.data
                                 ELSE IF defer_wb.block = b THEN defer_wb.data ELSE x
    BY <1>2, <2>2, NewestIsOneOf
  <2>4. PICK y : y = Value(lines', backing_mem', b)
    OBVIOUS
  <2>5. Newest(backing_mem, b)' = IF wb'.block = b THEN wb'.data
                                  ELSE IF wb.block = b THEN wb.data
                                  ELSE IF defer_wb'.block = b THEN defer_wb'.data ELSE y
    BY <1>3, <1>4, <1>5, <2>4, NewestIsOneOfThen
  <2>6. y = IF Absorbed(NoLine) # NoWb /\ Absorbed(NoLine).block = b
            THEN Absorbed(NoLine).data ELSE x
    BY <1>4, <2>2, <2>4 DEF Absorbs
  <2>7. CASE s1_wb = NoWb
    <3>1. Absorbed(NoLine) = defer_wb /\ defer_wb' = NoWb
      BY <1>5, <2>7 DEF Absorbed, DeferWb
    <3> QED BY <2>1, <2>3, <2>5, <2>6, <2>7, <3>1
  <2>8. CASE s1_wb # NoWb /\ Collides(NoLine)
    <3>1. Absorbed(NoLine) = NoWb /\ defer_wb' = s1_wb
      BY <1>5, <2>8 DEF Absorbed, DeferWb
    <3> QED BY <1>6, <2>1, <2>3, <2>5, <2>6, <2>8, <3>1
  <2>9. CASE s1_wb # NoWb /\ ~Collides(NoLine)
    <3>1. Absorbed(NoLine) = s1_wb /\ defer_wb' = NoWb
      BY <1>5, <1>6, <2>9 DEF Absorbed, DeferWb
    <3> QED BY <1>6, <2>1, <2>3, <2>5, <2>6, <2>9, <3>1
  <2> QED BY <2>7, <2>8, <2>9
<1> QED BY <1>3, <1>4, <1>7

LEMMA OneStoreStep ==
  ASSUME ~USE_AVALON, CInv, NEW miss \in Reqs, ClientL2Step(miss)
  PROVE  OneStore'
<1>1. /\ evict' = <<>> /\ ext_mem_wr_req' = NoWb
      /\ Sound(lines', backing_mem')
      /\ \A b \in Blocks : Newest(backing_mem, b)'
           = IF wb' # NoWb /\ wb'.block = b THEN wb'.data ELSE Newest(backing_mem, b)
      /\ \A b \in Blocks : Present(lines', b) =>
           \/ Refilling(NoLine) /\ b = fill_blk
           \/ Absorbs(NoLine) /\ b = Absorbed(NoLine).block
           \/ Present(lines, b)
  BY LinesStep
<1>2. /\ Edge(l2_req, wb, NoLine, FALSE) /\ Respond(NoLine)
      /\ l2_req \in Reqs /\ wb \in Wbs /\ sent \subseteq Blocks
  BY DEF ClientL2Step, CInv, PortTypeOK, Edge
<1>3. ASSUME NEW i \in Mshrs, mshr'[i].valid, hit(mshr[i].block_addr)'
      PROVE  FALSE
  <2>1. PICK b \in Blocks : /\ b = mshr'[i].block_addr /\ b \in sent /\ b # l2_req
                            /\ ~hit(b) /\ (Refilling(NoLine) => b # fill_blk)
    <3>1. CASE ReadMiss /\ MshrOf(s1_req) = {} /\ mshr'[i].block_addr = s1_req
      BY <1>2, <3>1, Sources DEF CInv, InOnePlace
    <3>2. CASE /\ mshr[i].valid /\ mshr'[i].block_addr = mshr[i].block_addr
               /\ Refilling(NoLine) => fill_blk # mshr[i].block_addr
      <4>1. i \in MshrOf(mshr[i].block_addr)
        BY <3>2 DEF MshrOf
      <4> QED BY <1>2, <3>2, <4>1, Sources DEF CInv, InOnePlace, OneStore
    <3> QED BY <1>2, <1>3, <3>1, <3>2, MshrSources
  <2>2. hit(b)'
    BY <1>3, <2>1 DEF hit, HitWays
  <2>3. Present(lines', b)
    BY <2>2 DEF hit, HitWays, Present, InWay
  <2>4. ~Present(lines, b)
    BY <2>1, HitIsPresent
  <2> QED BY <1>1, <2>1, <2>3, <2>4, AbsorbedNotFetched
<1>4. ASSUME defer' # NoLine
      PROVE  defer' = Newest(backing_mem, defer_for)'
  <2>1. Refilling(NoLine) /\ ReadHit /\ defer' = HitLine(s1_req) /\ defer_for' = s1_req
    BY <1>2, <1>4 DEF Respond, ClientL2Step, Label
  <2>2. s1_req \in sent /\ hit(s1_req) /\ s1_req # l2_req /\ s1_req \in Blocks
    BY <1>2, <2>1, Sources DEF CInv, InOnePlace
  <2>3. defer' = Newest(backing_mem, s1_req)
    <3>1. Newest(backing_mem, s1_req) = Value(lines, backing_mem, s1_req)
      BY <2>2, FetchedIsNewest
    <3>2. HitLine(s1_req) = Value(lines, backing_mem, s1_req)
      BY <2>2, HitIsPresent DEF CInv, OneStore
    <3> QED BY <2>1, <3>1, <3>2
  <2>4. ~(wb' # NoWb /\ wb'.block = s1_req)
    <3>1. wb' # NoWb => wb'.block \in held
      BY FewWantedStep DEF CInv, ClientL2Step, Edge
    <3> QED BY <2>2, <3>1 DEF CInv, FewWanted, Wanted
  <2>5. PICK b \in Blocks : b = s1_req
    BY <2>2
  <2>6. Newest(backing_mem, b)' = Newest(backing_mem, b)
    BY <1>1, <2>4, <2>5
  <2>7. Newest(backing_mem, b)' = Newest(backing_mem, defer_for)'
    BY <2>1, <2>5 DEF Newest, EvictedAs, hit, HitWays, HitLine
  <2> QED BY <2>3, <2>5, <2>6, <2>7
<1> QED BY <1>1, <1>3, <1>4 DEF OneStore

-----------------------------------------------------------------------------
(***************************************************************************)
(* The step of the store of lines.                                         *)
(***************************************************************************)
LEMMA HandingStep ==
  ASSUME ~USE_AVALON, CInv, NEW miss \in Reqs, ClientL2Step(miss)
  PROVE  LS!Kept \/ \E b \in Blocks, l \in Lines : LS!HandedDown(b, l)
<1>1. \A b \in Blocks : Newest(backing_mem, b)'
         = IF wb' # NoWb /\ wb'.block = b THEN wb'.data ELSE Newest(backing_mem, b)
  BY LinesStep
<1>2. HandsDown
  BY ClientStep DEF CInv, ClientL2Step
<1>3. CASE wb' = NoWb
  <2>1. \A b \in Blocks : Newest(backing_mem, b)' = Newest(backing_mem, b)
    BY <1>1, <1>3
  <2>2. [b \in Blocks |-> Newest(backing_mem, b)]' = [b \in Blocks |-> Newest(backing_mem, b)]
    BY <2>1
  <2> QED BY <1>3, <2>2 DEF LS!Kept
<1>4. ASSUME NEW v \in held, NEW l \in Lines, wb' = [block |-> v, data |-> l]
      PROVE  \E b \in Blocks, x \in Lines : LS!HandedDown(b, x)
  <2>1. v \in Blocks /\ v \notin sent \ {resp_for} /\ NoWb.block # v
    BY L2DataAssumption DEF CInv, PortTypeOK, FewWanted, Wanted, NoWb
  <2>2. wb'.block = v /\ wb'.data = l /\ wb' # NoWb
    BY <1>4, <2>1
  <2>3. \A b \in Blocks : Newest(backing_mem, b)' = IF b = v THEN l ELSE Newest(backing_mem, b)
    BY <1>1, <2>2
  <2>4. [b \in Blocks |-> Newest(backing_mem, b)]' =
          [[b \in Blocks |-> Newest(backing_mem, b)] EXCEPT ![v] = l]
    BY <2>3
  <2>5. LS!HandedDown(v, l)
    BY <1>4, <2>1, <2>4 DEF LS!HandedDown
  <2> QED BY <2>1, <2>5
<1> QED BY <1>2, <1>3, <1>4 DEF HandsDown

\* Whatever is answered, it is with the newest version.
LEMMA AnsweringStep ==
  ASSUME ~USE_AVALON, CInv, NEW miss \in Reqs, ClientL2Step(miss)
  PROVE  LS!Silent \/ \E b \in Blocks : LS!Answered(b)
<1>1. /\ resp_for' = IF defer # NoLine THEN defer_for
                     ELSE IF Refilling(NoLine) THEN fill_blk
                     ELSE IF ReadHit THEN s1_req ELSE NoBlock
      /\ l2_resp' = IF defer # NoLine THEN defer
                    ELSE IF Refilling(NoLine) THEN fill_data(NoLine)
                    ELSE IF ReadHit THEN HitLine(s1_req) ELSE NoLine
  BY DEF ClientL2Step, Label, Edge, Respond
<1>2. ASSUME NEW b \in sent \ {resp_for}, resp_for' = b,
             l2_resp' = Newest(backing_mem, b)
      PROVE  \E c \in Blocks : LS!Answered(c)
  <2>1. b \in Blocks
    BY DEF CInv, PortTypeOK
  <2>2. [c \in Blocks |-> Newest(backing_mem, c)][b] = Newest(backing_mem, b)
    BY <2>1
  <2>3. LS!Answered(b)
    BY <1>2, <2>2 DEF LS!Answered
  <2> QED BY <2>1, <2>3
<1>3. CASE defer # NoLine
  <2>1. defer_for \in sent \ {resp_for} /\ defer = Newest(backing_mem, defer_for)
    BY <1>3 DEF CInv, InOnePlace, OneStore
  <2> QED BY <1>1, <1>2, <1>3, <2>1
<1>4. CASE defer = NoLine /\ Refilling(NoLine)
  <2>1. fill_blk \in sent \ {resp_for} /\ fill_blk # l2_req /\ ~hit(fill_blk)
    BY <1>4, Sources
  <2>2. fill_blk \in Blocks /\ Newest(backing_mem, fill_blk) = Value(lines, backing_mem, fill_blk)
    BY <2>1, FetchedIsNewest
  <2>3. Value(lines, backing_mem, fill_blk) = backing_mem[fill_blk]
    BY <2>1, <2>2, HitIsPresent DEF Value
  <2>4. l2_resp' = Newest(backing_mem, fill_blk)
    BY <1>1, <1>4, <2>2, <2>3 DEF fill_data
  <2> QED BY <1>1, <1>2, <1>4, <2>1, <2>4
<1>5. CASE defer = NoLine /\ ~Refilling(NoLine) /\ ReadHit
  <2>1. s1_req \in sent \ {resp_for} /\ s1_req # l2_req /\ hit(s1_req)
    BY <1>5, Sources DEF CInv, InOnePlace
  <2>2. s1_req \in Blocks /\ Newest(backing_mem, s1_req) = Value(lines, backing_mem, s1_req)
    BY <2>1, FetchedIsNewest
  <2>3. HitLine(s1_req) = Value(lines, backing_mem, s1_req)
    BY <2>1, <2>2, HitIsPresent DEF CInv, OneStore
  <2> QED BY <1>1, <1>2, <1>5, <2>1, <2>2, <2>3
<1>6. CASE defer = NoLine /\ ~Refilling(NoLine) /\ ~ReadHit
  BY <1>1, <1>6 DEF LS!Silent
<1> QED BY <1>3, <1>4, <1>5, <1>6

LEMMA FetchingStep ==
  ASSUME CInv, NEW miss \in Reqs, ClientL2Step(miss)
  PROVE  LS!Fetched({}) \/ \E b \in Blocks : LS!Fetched({b})
<1>1. /\ l2_req' = NoBlock \/ l2_req' \in unsent
      /\ sent' = (sent \cup ({l2_req'} \ {NoBlock})) \ {resp_for}
  BY ClientStep DEF CInv, ClientL2Step
<1>2. /\ unsent \cap sent = {} /\ unsent \subseteq Blocks /\ NoBlock \notin unsent
      /\ resp_for # NoBlock => resp_for \in sent
  BY L2DataAssumption DEF CInv, FewWanted, PortTypeOK, InOnePlace
<1>3. resp_for' = NoBlock \/ resp_for' \in sent
  BY Sources DEF ClientL2Step, Label, CInv, InOnePlace
<1>4. CASE l2_req' = NoBlock
  <2>1. (sent \ {resp_for})' = (sent \ {resp_for}) \ {resp_for'}
    BY <1>1, <1>4
  <2> QED BY <2>1 DEF LS!Fetched
<1>5. CASE l2_req' \in unsent
  <2>1. /\ l2_req' \in Blocks /\ l2_req' \notin sent
        /\ l2_req' # resp_for /\ l2_req' # resp_for' /\ l2_req' # NoBlock
    BY <1>2, <1>3, <1>5
  <2>2. (sent \ {resp_for})' = ((sent \ {resp_for}) \ {resp_for'}) \cup {l2_req'}
    BY <1>1, <2>1
  <2>3. LS!Fetched({l2_req'})
    BY <2>1, <2>2 DEF LS!Fetched
  <2> QED BY <2>1, <2>3
<1> QED BY <1>1, <1>4, <1>5

-----------------------------------------------------------------------------
(* Together.                                                               *)

LEMMA InitCInv == Init => CInv /\ LS!LSInit
<1> SUFFICES ASSUME Init PROVE CInv /\ LS!LSInit
  OBVIOUS
<1>1. IInv /\ TypeOK
  BY InitIInv, InitType DEF Init
<1>2. Sound(lines, backing_mem)
  BY <1>1, SetOfType DEF Init, L2Init, Sound, TypeOK
<1>3. \A b \in Blocks : ~hit(b)
  BY SetOfType DEF Init, L2Init, hit, HitWays
<1>4. PortTypeOK /\ InOnePlace /\ Downward
  BY DEF Init, L2Init, ClientInit, PortTypeOK, InOnePlace, Downward, Reqs, Wbs
<1>5. FewWanted
  <2>1. Wanted = {} /\ IsFiniteSet(Wanted) /\ Cardinality(Wanted) = 0
    BY FS_EmptySet DEF Init, ClientInit, Wanted
  <2> QED BY <2>1 DEF Init, ClientInit, FewWanted
<1>6. CInv
  BY <1>1, <1>2, <1>4, <1>5 DEF CInv, OneStore, Init, L2Init
<1>7. ASSUME NEW b \in Blocks PROVE Newest(backing_mem, b) = ZeroLine
  <2>1. NoWb.block # b
    BY L2DataAssumption DEF NoWb
  <2>2. Value(lines, backing_mem, b) = ZeroLine
    BY <1>3, HitIsPresent DEF Value, Init, L2Init
  <2>3. Newest(backing_mem, b) = Value(lines, backing_mem, b)
    BY <1>2, <2>1, NewestIsOneOf DEF Init, L2Init, ClientInit
  <2> QED BY <2>2, <2>3
<1>8. [b \in Blocks |-> Newest(backing_mem, b)] = [b \in Blocks |-> ZeroLine]
  BY <1>7
<1>9. sent \ {resp_for} = {}
  BY DEF Init, ClientInit
<1>10. LS!LSInit
  BY <1>8, <1>9 DEF Init, L2Init, ClientInit, LS!LSInit
<1> QED BY <1>6, <1>10

LEMMA EdgeCInv ==
  ASSUME ~USE_AVALON, CInv, NEW miss \in Reqs, ClientL2Step(miss)
  PROVE  CInv' /\ LS!LSNext
<1>1. Edge(l2_req, wb, NoLine, FALSE) /\ s1_wb' = wb
  BY DEF ClientL2Step, Edge
<1>2. IInv'
  <2>1. L2Next
    BY <1>1 DEF L2Next, CInv, PortTypeOK, Reqs, Wbs
  <2> QED BY <2>1, StepIInv DEF CInv
<1>3. PortTypeOK' /\ FewWanted'
  <2>1. /\ held' \subseteq Blocks /\ unsent' \subseteq Blocks /\ sent' \subseteq Blocks
        /\ l2_req' \in Reqs /\ wb' \in Wbs /\ FewWanted'
    BY <1>1, FewWantedStep DEF CInv, ClientL2Step
  <2> QED BY <2>1, InOnePlaceStep DEF PortTypeOK
<1>4. CInv'
  BY <1>2, <1>3, InOnePlaceStep, DownwardStep, OneStoreStep DEF CInv
<1>5. LS!LSNext
  BY HandingStep, AnsweringStep, FetchingStep DEF LS!LSNext
<1> QED BY <1>4, <1>5

LEMMA StepCInv ==
  ASSUME ~USE_AVALON
  PROVE  CInv /\ [Next]_vars => CInv' /\ [LS!LSNext]_LS!lsVars
<1> SUFFICES ASSUME CInv, [Next]_vars PROVE CInv' /\ [LS!LSNext]_LS!lsVars
  OBVIOUS
<1>1. CASE Next
  <2>1. PICK miss \in Reqs : ClientL2Step(miss)
    BY <1>1 DEF Next, Step, ClientL2Step, Reqs
  <2> QED BY <2>1, EdgeCInv
<1>2. CASE UNCHANGED vars
  <2>1. UNCHANGED l2Vars
    BY <1>2 DEF vars
  <2>2. IInv'
    BY <2>1, StepIInv DEF CInv
  <2>3. \A b : Newest(backing_mem, b)' = Newest(backing_mem, b)
    BY <1>2 DEF vars, l2Vars, clientVars, Newest, hit, HitWays, HitLine, EvictedAs
  <2>4. OneStore'
    <3>1. Newest(backing_mem, defer_for)' = Newest(backing_mem, defer_for)
      BY <1>2 DEF vars, l2Vars, clientVars, labels, Newest, hit, HitWays, HitLine, EvictedAs
    <3> QED BY <1>2, <3>1 DEF vars, l2Vars, labels, CInv, OneStore, hit, HitWays
  <2>5. CInv'
    BY <1>2, <2>2, <2>4 DEF vars, l2Vars, clientVars, labels, CInv, PortTypeOK,
       InOnePlace, FewWanted, Wanted, Downward, MshrOf
  <2>6. [b \in Blocks |-> Newest(backing_mem, b)]' = [b \in Blocks |-> Newest(backing_mem, b)]
    BY <2>3
  <2>7. UNCHANGED <<wb, sent, resp_for, l2_resp>>
    BY <1>2 DEF vars, l2Vars, clientVars, labels
  <2> QED BY <2>5, <2>6, <2>7 DEF LS!lsVars
<1> QED BY <1>1, <1>2

(***************************************************************************)
(* The L2 with its simulated memory under two misses of L1: no block is in *)
(* two ways, whatever refills and write-backs meet on an edge.             *)
(***************************************************************************)
THEOREM BlocksAreUnique ==
  ASSUME ~USE_AVALON
  PROVE  Spec => []OneCopyInL2
<1>1. CInv => OneCopyInL2
  BY DEF CInv, OneStore, Sound, OneCopyInL2
<1> QED BY <1>1, InitCInv, StepCInv, PTL DEF Spec

(***************************************************************************)
(* The L2 with its simulated memory is a store of lines for L1.            *)
(***************************************************************************)
THEOREM IsLineStore ==
  ASSUME ~USE_AVALON
  PROVE  Spec => ImplementsLineStore
<1> QED BY InitCInv, StepCInv, PTL DEF Spec, ImplementsLineStore, LS!LSSpec

-----------------------------------------------------------------------------
(***************************************************************************)
(* Replacement.                                                            *)
(***************************************************************************)

\* A policy that notes what is installed, and does not choose it next.
SparesInstalled ==
  \A p \in Policies, w \in Ways, e \in BOOLEAN :
    \A S \in {AfterRefill(p, w, e), AfterInstall(p, w, e)} :
      S # {} /\ \A q \in S : VictimOf(q) # w

LEMMA ChosenIsSpared ==
  ASSUME SparesInstalled, NEW p \in Policies, NEW w \in Ways, NEW e \in BOOLEAN,
         NEW S, S = AfterRefill(p, w, e) \/ S = AfterInstall(p, w, e)
  PROVE  S # {} /\ VictimOf(CHOOSE q \in S : TRUE) # w
<1>1. S # {} /\ \A q \in S : VictimOf(q) # w
  BY DEF SparesInstalled
<1>2. (CHOOSE q \in S : TRUE) \in S
  BY <1>1
<1> QED BY <1>1, <1>2

\* An edge that changes a tag leaves a policy that spares the way.
LEMMA SparedStep ==
  ASSUME SparesInstalled, CInv, NEW miss \in Reqs, ClientL2Step(miss),
         NEW w \in Ways, NEW s \in Sets, lines'[w][s].tag # lines[w][s].tag
  PROVE  VictimOf(plru_bits'[s]) # w
<1>1. /\ TypeOK /\ NoLine \in Reads
      /\ lines' = NextLines(NoLine) /\ plru_bits'[s] = NextPolicy(NoLine, s)
  BY DEF CInv, IInv, Reads, ClientL2Step, Edge
<1>2. /\ lines \in [Ways -> [Sets -> LineRec]] /\ plru_bits[s] \in Policies
      /\ 0 \in Ways /\ lines[0][s].valid \in BOOLEAN
  BY <1>1, L2SizeAssumption DEF TypeOK, LineRec, Ways
<1>3. PICK L : L = Refilled(NoLine)
  OBVIOUS
<1>4. CASE Installs(NoLine) /\ AbsorbSet(NoLine) = s /\ AbsorbWay(NoLine) = w
  <2>1. AbsorbUpdate(NoLine, s) = AfterInstall(plru_bits[s], w, DirtyVictim(s))
    BY <1>4 DEF AbsorbUpdate, Installs
  <2>2. DirtyVictim(s) \in BOOLEAN
    BY DEF DirtyVictim
  <2>3. PICK S : S = AfterInstall(plru_bits[s], w, DirtyVictim(s))
    OBVIOUS
  <2>4. S # {} /\ VictimOf(CHOOSE q \in S : TRUE) # w
    BY <1>2, <2>2, <2>3, ChosenIsSpared
  <2>5. NextPolicy(NoLine, s) = CHOOSE q \in S : TRUE
    BY <2>1, <2>3, <2>4 DEF NextPolicy
  <2> QED BY <1>1, <2>4, <2>5
<1>5. CASE ~(Installs(NoLine) /\ AbsorbSet(NoLine) = s /\ AbsorbWay(NoLine) = w)
  <2>1. L \in [Ways -> [Sets -> LineRec]]
    <3>1. CASE Refilling(NoLine)
      <4>1. PICK t \in Sets, v \in Ways, new \in LineRec :
              L = [lines EXCEPT ![v][t] = new]
        <5>1. [valid |-> TRUE, dirty |-> FALSE, tag |-> fill_blk,
               data |-> fill_data(NoLine)] \in LineRec
          BY <1>1, <3>1, FillType DEF LineRec
        <5> QED BY <1>1, <1>3, <3>1, <5>1, FillType DEF Refilled
      <4> QED BY <1>2, <4>1
    <3>2. CASE ~Refilling(NoLine)
      BY <1>2, <1>3, <3>2 DEF Refilled
    <3> QED BY <3>1, <3>2
  <2>2. L[w][s].tag # lines[w][s].tag
    <3>1. CASE ~Absorbs(NoLine)
      BY <1>1, <1>3, <3>1 DEF NextLines
    <3>2. CASE Absorbs(NoLine)
      <4>1. PICK v \in Ways, t \in Sets, d \in Lines :
              v = AbsorbWay(NoLine) /\ t = AbsorbSet(NoLine) /\ d = Absorbed(NoLine).data
        BY <1>1, <3>2, AbsorbType
      <4>2. CASE v = w /\ t = s
        <5>1. ~Installs(NoLine)
          BY <1>5, <4>1, <4>2
        <5>2. lines' = [L EXCEPT ![w][s] = [valid |-> @.valid, dirty |-> TRUE,
                                            tag |-> @.tag, data |-> d]]
          BY <1>1, <1>3, <3>2, <4>1, <4>2, <5>1 DEF NextLines
        <5>3. lines'[w][s].tag = L[w][s].tag
          BY <2>1, <5>2
        <5> QED BY <5>3
      <4>3. CASE ~(v = w /\ t = s)
        <5>1. PICK new : lines' = [L EXCEPT ![v][t] = new]
          BY <1>1, <1>3, <3>2, <4>1 DEF NextLines
        <5>2. lines'[w][s] = L[w][s]
          BY <2>1, <4>3, <5>1
        <5> QED BY <5>2
      <4> QED BY <4>2, <4>3
    <3> QED BY <3>1, <3>2
  <2>3. Refilling(NoLine)
    BY <1>3, <2>2 DEF Refilled
  <2>4. fill_idx = s /\ find_install_way(s) = w
    <3>1. PICK new : L = [lines EXCEPT ![find_install_way(fill_idx)][fill_idx] = new]
      BY <1>3, <2>3 DEF Refilled
    <3>2. find_install_way(fill_idx) \in Ways /\ fill_idx \in Sets
      BY <1>1, FillType
    <3>3. ASSUME ~(find_install_way(fill_idx) = w /\ fill_idx = s) PROVE FALSE
      <4>1. L[w][s] = lines[w][s]
        BY <1>2, <3>1, <3>2, <3>3
      <4> QED BY <2>2, <4>1
    <3> QED BY <3>3
  <2>5. AbsorbUpdate(NoLine, s) = {}
    BY <2>3, <2>4, NoCollision DEF AbsorbUpdate
  <2>6. PICK S : S = AfterRefill(plru_bits[s], w, lines[0][s].valid)
    OBVIOUS
  <2>7. RefillUpdate(NoLine, s) \cup ReadUpdate(NoLine, s) = S
    BY <2>3, <2>4, <2>6 DEF RefillUpdate, ReadUpdate
  <2>8. S # {} /\ VictimOf(CHOOSE q \in S : TRUE) # w
    BY <1>2, <2>6, ChosenIsSpared
  <2>9. NextPolicy(NoLine, s) = CHOOSE q \in S : TRUE
    BY <2>5, <2>7, <2>8 DEF NextPolicy
  <2> QED BY <1>1, <2>8, <2>9
<1> QED BY <1>4, <1>5

\* Any policy of that kind spares what the L2 has just installed.
LEMMA InstalledIsSpared ==
  ASSUME ~USE_AVALON, SparesInstalled
  PROVE  Spec => InstalledIsNotNextVictim
<1> DEFINE Spared == \A w \in Ways, s \in Sets :
                       lines'[w][s].tag # lines[w][s].tag => VictimOf(plru_bits'[s]) # w
<1>1. CInv /\ [Next]_vars => [Spared]_l2Vars
  <2> SUFFICES ASSUME CInv, [Next]_vars PROVE [Spared]_l2Vars
    OBVIOUS
  <2>1. CASE Next
    <3>1. PICK miss \in Reqs : ClientL2Step(miss)
      BY <2>1 DEF Next, Step, ClientL2Step, Reqs
    <3> QED BY <3>1, SparedStep
  <2>2. CASE UNCHANGED vars
    BY <2>2 DEF vars
  <2> QED BY <2>1, <2>2
<1> QED BY <1>1, InitCInv, StepCInv, PTL DEF Spec, InstalledIsNotNextVictim

Plru == INSTANCE Replacement

\* The tree points away from the way just used.
LEMMA PlruPointsAway ==
  ASSUME NEW bits \in Plru!plru_states, NEW way \in 0 .. 3
  PROVE  /\ Plru!plru_after_access(bits, way) \in Plru!plru_states
         /\ Plru!plru_victim(Plru!plru_after_access(bits, way)) # way
<1>1. bits \in [0 .. 2 -> BOOLEAN]
  BY DEF Plru!plru_states
<1>2. PICK leaf, even, low :
        /\ leaf = (IF way < 2 THEN 0 ELSE 1) /\ even = (way % 2 = 0) /\ low = (way < 2)
  OBVIOUS
<1>3. leaf \in {0, 1} /\ even \in BOOLEAN /\ low \in BOOLEAN
  BY <1>2
<1>4. PICK after : after = Plru!plru_after_access(bits, way)
  OBVIOUS
<1>5. after = [bits EXCEPT ![leaf] = even, ![2] = low]
  BY <1>2, <1>4 DEF Plru!plru_after_access
<1>6. after \in [0 .. 2 -> BOOLEAN] /\ after[2] = low
  BY <1>1, <1>3, <1>5
<1>7. CASE low
  <2>1. Plru!plru_victim(after) \in {2, 3}
    BY <1>6, <1>7 DEF Plru!plru_victim
  <2> QED BY <1>2, <1>4, <1>6, <1>7, <2>1 DEF Plru!plru_states
<1>8. CASE ~low
  <2>1. Plru!plru_victim(after) \in {0, 1}
    BY <1>6, <1>8 DEF Plru!plru_victim
  <2> QED BY <1>2, <1>4, <1>6, <1>8, <2>1 DEF Plru!plru_states
<1> QED BY <1>7, <1>8

(***************************************************************************)
(* The tree pseudo-LRU of L2_copy.sv: the line just refilled or written    *)
(* back into a set is not the next one of the set to be thrown out, also   *)
(* when a read hits or another write-back arrives on the same edge.        *)
(***************************************************************************)
THEOREM PlruSparesInstalled ==
  ASSUME ~USE_AVALON, WAYS = 4, Policies = Plru!plru_states,
         \A p \in Policies : VictimOf(p) = Plru!plru_victim(p),
         \A p \in Policies, w \in Ways, e \in BOOLEAN :
           /\ AfterRefill(p, w, e) = Plru!plru_refill(p, w, e)
           /\ AfterInstall(p, w, e) = Plru!plru_install(p, w, e)
  PROVE  Spec => InstalledIsNotNextVictim
<1>1. Ways = 0 .. 3
  BY DEF Ways
<1>2. SparesInstalled
  <2> SUFFICES ASSUME NEW p \in Policies, NEW w \in Ways, NEW e \in BOOLEAN,
                      NEW S \in {AfterRefill(p, w, e), AfterInstall(p, w, e)}
               PROVE  S # {} /\ \A q \in S : VictimOf(q) # w
    BY DEF SparesInstalled
  <2>1. S = {Plru!plru_after_access(p, w)}
    BY DEF Plru!plru_refill, Plru!plru_install
  <2>2. /\ Plru!plru_after_access(p, w) \in Policies
        /\ Plru!plru_victim(Plru!plru_after_access(p, w)) # w
    BY <1>1, PlruPointsAway
  <2> QED BY <2>1, <2>2
<1> QED BY <1>2, InstalledIsSpared

-----------------------------------------------------------------------------
(***************************************************************************)
(* The L2 over the Avalon master.  One operation is under way at a time,   *)
(* and it is in one place: in L1's miss register, on the request port, in  *)
(* stage 1, in an MSHR of the L2, with the master, or on the answer port.  *)
(* What it pushes out is also in one place at a time: on the write-back    *)
(* port, in stage 1, in the eviction FIFO, on the master's port.  At most  *)
(* two lines are on their way down, the L2's victim ahead of L1's, and     *)
(* they never meet.                                                        *)
(***************************************************************************)
(* Where the newest version of a line is.                                  *)

\* Way w holds block b.
Holds(w, b) == lines[w][SetOf[b]].valid /\ lines[w][SetOf[b]].tag = b

LinesInTheirSet == \A w \in Ways, s \in Sets : SetOf[lines[w][s].tag] = s

\* Beneath the L2: in the eviction FIFO, on the master's port, in memory.
Beneath(b) == IF evict # <<>> /\ evict[1].block = b THEN evict[1].data
              ELSE IF ext_mem_wr_req.block = b THEN ext_mem_wr_req.data
              ELSE mem[b]

\* In the L2 or beneath it.
Stored(b) == IF hit(b) THEN HitLine(b) ELSE Beneath(b)

CleanLinesAgree ==
  \A w \in Ways, s \in Sets :
    lines[w][s].valid /\ ~lines[w][s].dirty =>
      lines[w][s].data = Beneath(lines[w][s].tag)

LinesInv == TypeOK /\ OneCopyInL2 /\ LinesInTheirSet

LEMMA HitIsHeld ==
  ASSUME NEW b
  PROVE  hit(b) <=> \E w \in Ways : Holds(w, b)
BY DEF hit, HitWays, Holds

LEMMA HeldIsHit ==
  ASSUME TypeOK, OneCopyInL2, NEW b \in Blocks, NEW w \in Ways, Holds(w, b)
  PROVE  hit(b) /\ HitLine(b) = lines[w][SetOf[b]].data
<1>1. hit(b)
  BY HitIsHeld
<1>2. LeastOf(HitWays(b)) \in Ways /\ Holds(LeastOf(HitWays(b)), b)
  BY <1>1, HitWayType DEF HitWays, Holds
<1>3. SetOf[b] \in Sets
  BY SetOfType
<1>4. LeastOf(HitWays(b)) = w
  BY <1>2, <1>3 DEF OneCopyInL2, Holds
<1> QED BY <1>1, <1>4 DEF HitLine

\* A valid line is held for the block in its tag.
LEMMA ValidIsHeld ==
  ASSUME LinesInv, NEW w \in Ways, NEW s \in Sets, lines[w][s].valid
  PROVE  /\ lines[w][s].tag \in Blocks /\ SetOf[lines[w][s].tag] = s
         /\ Holds(w, lines[w][s].tag)
BY DEF LinesInv, LinesInTheirSet, TypeOK, LineRec, Holds

\* Nothing is deferred, and the FIFO holds one line at most.
LEMMA NewestIs ==
  ASSUME defer_wb = NoWb, evict = <<>> \/ \E e : evict = <<e>>, NEW b \in Blocks
  PROVE  Newest(mem, b) = IF wb.block = b THEN wb.data
                          ELSE IF s1_wb.block = b THEN s1_wb.data
                          ELSE Stored(b)
<1>1. defer_wb.block # b
  BY L2DataAssumption DEF NoWb
<1>2. CASE evict = <<>>
  <2>1. EvictedAs(b) = {}
    BY <1>2 DEF EvictedAs
  <2> QED BY <1>1, <1>2, <2>1 DEF Newest, Stored, Beneath
<1>3. ASSUME NEW e, evict = <<e>>
      PROVE  Newest(mem, b) = IF wb.block = b THEN wb.data
                              ELSE IF s1_wb.block = b THEN s1_wb.data
                              ELSE Stored(b)
  <2>1. Len(evict) = 1 /\ evict[1] = e /\ evict # <<>>
    BY <1>3
  <2>2. EvictedAs(b) = IF e.block = b THEN {1} ELSE {}
    BY <2>1 DEF EvictedAs
  <2>3. (CHOOSE k \in {1} : \A j \in {1} : j <= k) = 1
    OBVIOUS
  <2> QED BY <1>1, <2>1, <2>2, <2>3 DEF Newest, Stored, Beneath
<1> QED BY <1>2, <1>3

-----------------------------------------------------------------------------
(* What an edge does to the lines.                                         *)

\* The arrays stay, and so does what is beneath.
LEMMA LinesKept ==
  ASSUME LinesInv, lines' = lines, \A b \in Blocks : Beneath(b)' = Beneath(b)
  PROVE  /\ \A b \in Blocks : Stored(b)' = Stored(b)
         /\ OneCopyInL2' /\ LinesInTheirSet'
         /\ CleanLinesAgree => CleanLinesAgree'
<1>1. ASSUME NEW b \in Blocks PROVE Stored(b)' = Stored(b)
  <2>1. HitWays(b)' = HitWays(b)
    BY DEF HitWays
  <2>2. (hit(b)' <=> hit(b)) /\ HitLine(b)' = HitLine(b)
    BY <2>1 DEF hit, HitLine
  <2> QED BY <2>2 DEF Stored
<1>2. ASSUME CleanLinesAgree PROVE CleanLinesAgree'
  <2> SUFFICES ASSUME NEW w \in Ways, NEW s \in Sets,
                      lines'[w][s].valid, ~lines'[w][s].dirty
               PROVE  lines'[w][s].data = Beneath(lines[w][s].tag)'
    BY DEF CleanLinesAgree
  <2>1. PICK b \in Blocks : b = lines[w][s].tag
    BY DEF LinesInv, TypeOK, LineRec
  <2>2. Beneath(b)' = Beneath(lines[w][s].tag)'
    BY <2>1 DEF Beneath
  <2> QED BY <1>2, <2>1, <2>2 DEF CleanLinesAgree
<1> QED BY <1>1, <1>2 DEF LinesInv, OneCopyInL2, LinesInTheirSet

(***************************************************************************)
(* The line new of c is installed in way w, by a refill or by a            *)
(* write-back; a dirty line it displaces goes to the FIFO.                 *)
(***************************************************************************)
Install(c, w, new) ==
  /\ new.valid = TRUE /\ new.tag = c
  /\ new.dirty \/ new.data = Beneath(c)
  /\ lines' = [lines EXCEPT ![w][SetOf[c]] = new]
  /\ evict' = IF lines[w][SetOf[c]].valid /\ lines[w][SetOf[c]].dirty
              THEN <<[block |-> lines[w][SetOf[c]].tag,
                      data |-> lines[w][SetOf[c]].data]>>
              ELSE <<>>

\* An absent line is installed while nothing is on its way down.
LEMMA InstallStep ==
  ASSUME LinesInv, NEW c \in Blocks, ~hit(c), NEW w \in Ways, NEW new,
         Install(c, w, new),
         evict = <<>>, ext_mem_wr_req = NoWb, ext_mem_wr_req' = NoWb, mem' = mem,
         CleanLinesAgree
  PROVE  /\ \A b \in Blocks : Stored(b)' = IF b = c THEN new.data ELSE Stored(b)
         /\ OneCopyInL2' /\ LinesInTheirSet' /\ CleanLinesAgree'
<1>s. PICK s \in Sets : s = SetOf[c]
  BY SetOfType
<1>o. PICK old \in LineRec : old = lines[w][s]
  BY DEF LinesInv, TypeOK
<1>i. /\ new.valid = TRUE /\ new.tag = c
      /\ new.dirty \/ new.data = Beneath(c)
      /\ lines' = [lines EXCEPT ![w][s] = new]
      /\ evict' = IF old.valid /\ old.dirty
                  THEN <<[block |-> old.tag, data |-> old.data]>> ELSE <<>>
  BY <1>s, <1>o DEF Install
<1>1. s \in Sets /\ lines \in [Ways -> [Sets -> LineRec]] /\ old \in LineRec
  BY <1>o DEF LinesInv, TypeOK
<1>2. lines'[w][s] = new
  BY <1>1, <1>i
<1>3. ASSUME NEW v \in Ways, NEW t \in Sets, ~(v = w /\ t = s)
      PROVE  lines'[v][t] = lines[v][t]
  BY <1>1, <1>3, <1>i
<1>4. \A v \in Ways : ~Holds(v, c)
  BY HitIsHeld
<1>5. old.tag # c \/ ~old.valid
  BY <1>4, <1>s, <1>o DEF Holds
<1>6. LinesInTheirSet'
  <2> SUFFICES ASSUME NEW v \in Ways, NEW t \in Sets
               PROVE  SetOf[lines'[v][t].tag] = t
    BY DEF LinesInTheirSet
  <2> QED BY <1>2, <1>3, <1>i, <1>s DEF LinesInv, LinesInTheirSet
\* Which blocks are held afterwards.
<1>7. ASSUME NEW v \in Ways, NEW b \in Blocks
      PROVE  Holds(v, b)' <=> IF v = w /\ SetOf[b] = s THEN b = c ELSE Holds(v, b)
  <2>1. SetOf[b] \in Sets
    BY SetOfType
  <2> QED BY <1>2, <1>3, <1>i, <1>s, <2>1 DEF Holds
<1>8. OneCopyInL2'
  <2> SUFFICES ASSUME NEW t \in Sets, NEW u \in Ways, NEW v \in Ways,
                      lines'[u][t].valid, lines'[v][t].valid,
                      lines'[u][t].tag = lines'[v][t].tag
               PROVE  u = v
    BY DEF OneCopyInL2
  <2>1. ASSUME NEW x \in Ways, x # w, lines'[x][s].valid
        PROVE  lines'[x][s].tag # c
    BY <1>1, <1>3, <1>4, <1>s, <2>1 DEF Holds
  <2>2. CASE t = s /\ (u = w \/ v = w)
    BY <1>2, <1>i, <2>1, <2>2
  <2>3. CASE ~(t = s /\ (u = w \/ v = w))
    BY <1>3, <2>3 DEF LinesInv, OneCopyInL2
  <2> QED BY <2>2, <2>3
\* Beneath, only the displaced line is new.
<1>9. ASSUME NEW b \in Blocks
      PROVE  /\ Beneath(b) = mem[b]
             /\ Beneath(b)' = IF old.valid /\ old.dirty /\ b = old.tag THEN old.data
                              ELSE Beneath(b)
  <2>1. NoWb.block # b
    BY L2DataAssumption DEF NoWb
  <2>2. Beneath(b) = mem[b]
    BY <2>1 DEF Beneath
  <2>3. CASE old.valid /\ old.dirty
    <3>1. evict' = <<[block |-> old.tag, data |-> old.data]>>
      BY <1>i, <2>3
    <3>2. evict' # <<>> /\ evict'[1].block = old.tag /\ evict'[1].data = old.data
      BY <3>1
    <3> QED BY <2>1, <2>2, <2>3, <3>2 DEF Beneath
  <2>4. CASE ~(old.valid /\ old.dirty)
    BY <1>i, <2>1, <2>2, <2>4 DEF Beneath
  <2> QED BY <2>2, <2>3, <2>4
<1>10. TypeOK /\ OneCopyInL2
  BY DEF LinesInv
<1>11. ASSUME NEW v \in Ways, NEW b \in Blocks, Holds(v, b)'
       PROVE  hit(b)' /\ HitLine(b)' = lines'[v][SetOf[b]].data
  <2>1. /\ TypeOK /\ OneCopyInL2 /\ Holds(v, b)
          => hit(b) /\ HitLine(b) = lines[v][SetOf[b]].data
    BY HeldIsHit
  <2>2. hit(b)'
    BY <1>11 DEF hit, HitWays, Holds
  <2>3. LeastOf(HitWays(b)') \in HitWays(b)'
    BY <2>2, WaysAreNumbers, LeastIsMember DEF hit, HitWays
  <2>4. LeastOf(HitWays(b)') = v
    BY <1>8, <1>11, <2>3, SetOfType DEF OneCopyInL2, HitWays, Holds
  <2> QED BY <2>2, <2>4 DEF HitLine, LeastOf
<1>12. Stored(c)' = new.data
  <2>1. Holds(w, c)'
    BY <1>7, <1>s
  <2>2. hit(c)' /\ HitLine(c)' = new.data
    BY <1>2, <1>11, <1>s, <2>1
  <2> QED BY <2>2 DEF Stored
<1>13. ASSUME NEW b \in Blocks, b # c PROVE Stored(b)' = Stored(b)
  <2>0. SetOf[b] \in Sets
    BY SetOfType
  <2>1. CASE \E v \in Ways : Holds(v, b)'
    <3>1. PICK v \in Ways : Holds(v, b)'
      BY <2>1
    <3>2. ~(v = w /\ SetOf[b] = s) /\ Holds(v, b)
      BY <1>7, <1>13, <3>1
    <3>3. lines'[v][SetOf[b]] = lines[v][SetOf[b]]
      BY <1>3, <2>0, <3>2
    <3>4. hit(b) /\ HitLine(b) = lines[v][SetOf[b]].data
      BY <1>10, <3>2, HeldIsHit
    <3>5. hit(b)' /\ HitLine(b)' = lines'[v][SetOf[b]].data
      BY <1>11, <3>1
    <3> QED BY <3>3, <3>4, <3>5 DEF Stored
  <2>2. CASE ~\E v \in Ways : Holds(v, b)'
    <3>1. ~hit(b)'
      BY <2>2 DEF hit, HitWays, Holds
    <3>2. CASE hit(b)
      <4>1. PICK v \in Ways : Holds(v, b)
        BY <3>2, HitIsHeld
      <4>2. v = w /\ SetOf[b] = s
        BY <1>7, <2>2, <4>1
      <4>3. old.valid /\ old.tag = b
        BY <1>o, <4>1, <4>2 DEF Holds
      <4>4. HitLine(b) = old.data
        BY <1>10, <1>o, <4>1, <4>2, HeldIsHit
      <4>5. Beneath(b)' = old.data
        BY <1>1, <1>9, <1>o, <4>3 DEF CleanLinesAgree
      <4> QED BY <3>1, <3>2, <4>4, <4>5 DEF Stored
    <3>3. CASE ~hit(b)
      <4>1. ~(old.valid /\ old.tag = b)
        <5>1. CASE SetOf[b] = s
          BY <1>o, <3>3, <5>1, HitIsHeld DEF Holds
        <5>2. CASE SetOf[b] # s
          BY <1>1, <1>o, <5>2 DEF LinesInv, LinesInTheirSet
        <5> QED BY <5>1, <5>2
      <4> QED BY <1>9, <3>1, <3>3, <4>1 DEF Stored
    <3> QED BY <3>2, <3>3
  <2> QED BY <2>1, <2>2
<1>14. CleanLinesAgree'
  <2> SUFFICES ASSUME NEW v \in Ways, NEW t \in Sets,
                      lines'[v][t].valid, ~lines'[v][t].dirty
               PROVE  lines'[v][t].data = Beneath(lines[v][t].tag)'
    BY DEF CleanLinesAgree
  <2>1. CASE v = w /\ t = s
    <3>1. Beneath(c)' = Beneath(lines[v][t].tag)'
      BY <1>2, <1>i, <2>1 DEF Beneath
    <3> QED BY <1>2, <1>5, <1>9, <1>i, <2>1, <3>1
  <2>2. CASE ~(v = w /\ t = s)
    <3>1. lines'[v][t] = lines[v][t] /\ lines[v][t] \in LineRec
      BY <1>1, <1>3, <2>2
    <3>2. PICK b \in Blocks : b = lines[v][t].tag
      BY <3>1 DEF LineRec
    <3>3. Beneath(b)' = Beneath(lines[v][t].tag)'
      BY <3>1, <3>2 DEF Beneath
    <3>4. lines[v][t].data = Beneath(b)
      BY <3>1, <3>2 DEF CleanLinesAgree
    <3>5. ~(old.valid /\ b = old.tag)
      <4>1. SetOf[b] = t /\ SetOf[old.tag] = s
        BY <1>1, <1>o, <3>2 DEF LinesInv, LinesInTheirSet
      <4> QED BY <1>1, <1>10, <1>o, <2>2, <3>1, <3>2, <4>1 DEF OneCopyInL2
    <3> QED BY <1>9, <3>1, <3>3, <3>4, <3>5
  <2> QED BY <2>1, <2>2
<1> QED BY <1>6, <1>8, <1>12, <1>13, <1>14

\* A line that is held is overwritten and becomes dirty.
LEMMA OverwriteStep ==
  ASSUME LinesInv, NEW c \in Blocks, NEW w \in Ways, Holds(w, c),
         NEW s, s = SetOf[c], NEW new,
         new.valid = lines[w][s].valid, new.tag = lines[w][s].tag, new.dirty = TRUE,
         lines' = [lines EXCEPT ![w][s] = new],
         \A b \in Blocks : Beneath(b)' = Beneath(b),
         CleanLinesAgree
  PROVE  /\ \A b \in Blocks : Stored(b)' = IF b = c THEN new.data ELSE Stored(b)
         /\ OneCopyInL2' /\ LinesInTheirSet' /\ CleanLinesAgree'
<1>1. /\ s \in Sets /\ lines \in [Ways -> [Sets -> LineRec]]
      /\ TypeOK /\ OneCopyInL2
  BY SetOfType DEF LinesInv, TypeOK
<1>2. lines'[w][s] = new /\ new.valid /\ new.tag = c
  BY <1>1 DEF Holds
<1>3. ASSUME NEW v \in Ways, NEW t \in Sets, ~(v = w /\ t = s)
      PROVE  lines'[v][t] = lines[v][t]
  BY <1>1, <1>3
<1>4. ASSUME NEW v \in Ways, NEW t \in Sets
      PROVE  lines'[v][t].valid = lines[v][t].valid /\ lines'[v][t].tag = lines[v][t].tag
  <2>1. CASE v = w /\ t = s
    BY <1>2, <2>1
  <2>2. CASE ~(v = w /\ t = s)
    BY <1>3, <2>2
  <2> QED BY <2>1, <2>2
<1>5. OneCopyInL2' /\ LinesInTheirSet'
  BY <1>4 DEF LinesInv, OneCopyInL2, LinesInTheirSet
<1>6. ASSUME NEW b \in Blocks PROVE HitWays(b)' = HitWays(b)
  BY <1>4, SetOfType DEF HitWays
<1>7. ASSUME NEW b \in Blocks PROVE Stored(b)' = IF b = c THEN new.data ELSE Stored(b)
  <2>1. hit(b)' <=> hit(b)
    BY <1>6 DEF hit
  <2>2. CASE hit(b)
    <3>1. PICK v \in Ways : v = LeastOf(HitWays(b)) /\ Holds(v, b)
      BY <1>1, <2>2, HitWayType DEF HitWays, Holds
    <3>2. HitLine(b) = lines[v][SetOf[b]].data /\ HitLine(b)' = lines'[v][SetOf[b]].data
      BY <1>6, <3>1 DEF HitLine
    <3>3. CASE b = c
      <4>1. v = w
        BY <1>1, <3>1, <3>3 DEF Holds, OneCopyInL2
      <4> QED BY <1>2, <2>1, <2>2, <3>2, <3>3, <4>1 DEF Stored
    <3>4. CASE b # c
      <4>1. ~(v = w /\ SetOf[b] = s)
        BY <3>1, <3>4, <1>2 DEF Holds
      <4>2. lines'[v][SetOf[b]] = lines[v][SetOf[b]]
        BY <1>3, <4>1, SetOfType
      <4> QED BY <2>1, <2>2, <3>2, <3>4, <4>2 DEF Stored
    <3> QED BY <3>3, <3>4
  <2>3. CASE ~hit(b)
    <3>1. b # c
      BY <2>3, HitIsHeld
    <3> QED BY <2>1, <2>3, <3>1 DEF Stored
  <2> QED BY <2>2, <2>3
<1>8. CleanLinesAgree'
  <2> SUFFICES ASSUME NEW v \in Ways, NEW t \in Sets,
                      lines'[v][t].valid, ~lines'[v][t].dirty
               PROVE  lines'[v][t].data = Beneath(lines[v][t].tag)'
    BY DEF CleanLinesAgree
  <2>1. ~(v = w /\ t = s)
    BY <1>2
  <2>2. lines'[v][t] = lines[v][t] /\ lines[v][t] \in LineRec
    BY <1>1, <1>3, <2>1
  <2>3. PICK b \in Blocks : b = lines[v][t].tag
    BY <2>2 DEF LineRec
  <2>4. Beneath(b)' = Beneath(lines[v][t].tag)'
    BY <2>2, <2>3 DEF Beneath
  <2> QED BY <2>2, <2>3, <2>4 DEF CleanLinesAgree
<1> QED BY <1>5, <1>7, <1>8

-----------------------------------------------------------------------------
(* The edges of the L2 that a paced operation makes.                       *)

\* The line the master returns in a cycle.
Returned == IF rd_valid THEN rd_data ELSE NoLine

LEMMA NoWbBlock == \A b \in Blocks : NoWb.block # b
BY L2DataAssumption DEF NoWb

\* Neither a refill nor a write-back: the arrays and the deferred registers
\* stay.
LEMMA StillEdge ==
  ASSUME NEW req, NEW down, NEW rd, NEW busy, Edge(req, down, rd, busy),
         ~Refilling(rd), s1_wb = NoWb, defer_wb = NoWb
  PROVE  /\ lines' = lines /\ defer' = NoLine
         /\ defer_wb' = NoWb
         /\ evict' = IF Draining(busy) THEN Tail(evict) ELSE evict
         /\ ext_mem_wr_req' = IF Draining(busy) THEN Head(evict) ELSE NoWb
<1>1. Absorbed(rd) = NoWb /\ ~Absorbs(rd) /\ ~Installs(rd)
  BY DEF Absorbed, Absorbs, Installs
<1> QED BY <1>1 DEF Edge, NextLines, Refilled, Respond, DeferWb, NextEvict,
                    RefillEvicts, AbsorbEvicts, Issue

\* A line that an install displaces and that must be saved enters the FIFO.
LEMMA PushIs ==
  ASSUME evict = <<>>, USE_AVALON, NEW rd, NEW busy,
         NEW s, \/ AbsorbEvicts(rd) /\ s = AbsorbSet(rd)
                \/ ~AbsorbEvicts(rd) /\ RefillEvicts(rd) /\ s = fill_idx
  PROVE  NextEvict(rd, busy) = <<Evicted(s)>>
BY DEF NextEvict, Draining, Push

\* A write-back is absorbed while nothing is refilled or on its way down.
LEMMA AbsorbEdge ==
  ASSUME USE_AVALON, LinesInv, CleanLinesAgree, s1_wb \in WriteBacks,
         defer_wb = NoWb, evict = <<>>, ext_mem_wr_req = NoWb, mem' = mem,
         NEW req, NEW down, NEW rd \in Reads, NEW busy, Edge(req, down, rd, busy),
         ~Refilling(rd)
  PROVE  /\ \A b \in Blocks :
              Stored(b)' = IF b = s1_wb.block THEN s1_wb.data ELSE Stored(b)
         /\ OneCopyInL2' /\ LinesInTheirSet' /\ CleanLinesAgree'
         /\ defer' = NoLine /\ defer_wb' = NoWb /\ ext_mem_wr_req' = NoWb
         /\ evict' = <<>> \/ \E e \in WriteBacks : evict' = <<e>>
<1>1. PICK c \in Blocks, d \in Lines : s1_wb.block = c /\ s1_wb.data = d
  BY DEF WriteBacks
<1>2. s1_wb # NoWb
  BY NoWbIsNone
<1>3. Absorbed(rd) = s1_wb /\ Absorbs(rd) /\ defer_wb' = NoWb
  BY <1>2 DEF Absorbed, Absorbs, Collides, DeferWb, Edge
<1>4. defer' = NoLine
  BY DEF Edge, Respond
<1>5. ~Draining(busy) /\ ext_mem_wr_req' = NoWb
  BY DEF Draining, Edge, Issue
<1>6. PICK s \in Sets : s = SetOf[c]
  BY SetOfType
<1>7. AbsorbSet(rd) = s /\ TypeOK /\ ~RefillEvicts(rd)
  BY <1>1, <1>3, <1>6 DEF AbsorbSet, LinesInv, RefillEvicts
<1>8. PICK w \in Ways : w = AbsorbWay(rd)
  BY <1>3, <1>7, AbsorbType
<1>9. Refilled(rd) = lines
  BY DEF Refilled
<1>10. CASE hit(c)
  <2>1. ~Installs(rd) /\ Holds(w, c)
    BY <1>1, <1>3, <1>7, <1>8, <1>10, HitWayType
       DEF Installs, AbsorbWay, HitWays, Holds
  <2>2. PICK new : new = [valid |-> lines[w][s].valid, dirty |-> TRUE,
                          tag |-> lines[w][s].tag, data |-> d]
    OBVIOUS
  <2>3. lines' = [lines EXCEPT ![w][s] = new]
    <3>1. lines' = [lines EXCEPT ![w][s] =
                      [valid |-> lines[w][s].valid, dirty |-> TRUE,
                       tag |-> lines[w][s].tag, data |-> d]]
      BY <1>1, <1>3, <1>7, <1>8, <1>9, <2>1 DEF Edge, NextLines, LinesInv, TypeOK
    <3> QED BY <2>2, <3>1
  <2>4. evict' = <<>>
    BY <1>5, <1>7, <2>1 DEF Edge, NextEvict, AbsorbEvicts
  <2>5. \A b \in Blocks : Beneath(b)' = Beneath(b)
    BY <1>5, <2>4 DEF Beneath
  <2>6. /\ new.valid = lines[w][s].valid /\ new.tag = lines[w][s].tag
        /\ new.dirty = TRUE /\ new.data = d
    BY <2>2
  <2>7. /\ \A b \in Blocks : Stored(b)' = IF b = c THEN new.data ELSE Stored(b)
        /\ OneCopyInL2' /\ LinesInTheirSet' /\ CleanLinesAgree'
    BY <1>6, <2>1, <2>3, <2>5, <2>6, OverwriteStep
  <2> QED BY <1>1, <1>3, <1>4, <1>5, <2>4, <2>6, <2>7
<1>11. CASE ~hit(c)
  <2>1. Installs(rd) /\ w = find_install_way(s)
    BY <1>1, <1>3, <1>7, <1>8, <1>11 DEF Installs, AbsorbWay
  <2>2. PICK new : new = [valid |-> TRUE, dirty |-> TRUE, tag |-> c, data |-> d]
    OBVIOUS
  <2>3. lines' = [lines EXCEPT ![w][s] = new]
    BY <1>1, <1>3, <1>7, <1>8, <1>9, <2>1, <2>2 DEF Edge, NextLines
  <2>4. PICK old : old = lines[w][s]
    OBVIOUS
  <2>5. AbsorbEvicts(rd) <=> old.valid /\ old.dirty
    BY <1>7, <2>1, <2>4 DEF AbsorbEvicts, DirtyVictim, Displaced
  <2>6. Evicted(s) = [block |-> old.tag, data |-> old.data]
    BY <2>1, <2>4 DEF Evicted, Displaced
  <2>7. evict' = NextEvict(rd, busy)
    BY DEF Edge
  <2>8. evict' = IF old.valid /\ old.dirty
                 THEN <<[block |-> old.tag, data |-> old.data]>> ELSE <<>>
    <3>1. CASE AbsorbEvicts(rd)
      BY <1>7, <2>5, <2>6, <2>7, <3>1, PushIs
    <3>2. CASE ~AbsorbEvicts(rd)
      BY <1>5, <1>7, <2>5, <2>7, <3>2 DEF NextEvict
    <3> QED BY <3>1, <3>2
  <2>9. new.valid = TRUE /\ new.dirty = TRUE /\ new.tag = c /\ new.data = d
    BY <2>2
  <2>a. Install(c, w, new)
    BY <1>6, <2>3, <2>4, <2>8, <2>9 DEF Install
  <2>10. /\ \A b \in Blocks : Stored(b)' = IF b = c THEN new.data ELSE Stored(b)
         /\ OneCopyInL2' /\ LinesInTheirSet' /\ CleanLinesAgree'
    BY <1>5, <1>11, <2>a, InstallStep
  <2>11. [block |-> old.tag, data |-> old.data] \in WriteBacks
    BY <1>7, <2>6, EvictedType
  <2> QED BY <1>1, <1>3, <1>4, <1>5, <2>8, <2>9, <2>10, <2>11
<1> QED BY <1>10, <1>11

\* The line that was fetched is installed while nothing is on its way down.
LEMMA RefillEdge ==
  ASSUME USE_AVALON, LinesInv, CleanLinesAgree, s1_wb = NoWb, s1_req = NoBlock,
         defer_wb = NoWb, evict = <<>>, ext_mem_wr_req = NoWb, mem' = mem,
         NEW req, NEW down, NEW rd \in Lines, NEW busy, Edge(req, down, rd, busy),
         Refilling(rd), ~hit(fill_blk), rd = mem[fill_blk]
  PROVE  /\ \A b \in Blocks : Stored(b)' = Stored(b)
         /\ OneCopyInL2' /\ LinesInTheirSet' /\ CleanLinesAgree'
         /\ defer' = NoLine /\ defer_wb' = NoWb /\ ext_mem_wr_req' = NoWb
         /\ evict' = <<>> \/ \E e \in WriteBacks : evict' = <<e>>
         /\ l2_resp' = rd
<1>1. TypeOK /\ rd \in Reads
  BY DEF LinesInv, Reads
<1>2. PICK c \in Blocks : c = fill_blk
  BY <1>1, FillType
<1>3. PICK s \in Sets : s = fill_idx /\ s = SetOf[c]
  BY <1>1, <1>2, FillType DEF fill_idx
<1>4. PICK w \in Ways : w = find_install_way(s)
  BY <1>1, <1>3, FillType
<1>5. Absorbed(rd) = NoWb /\ ~Absorbs(rd) /\ ~Installs(rd) /\ defer_wb' = NoWb
  BY DEF Absorbed, Absorbs, Installs, DeferWb, Edge
<1>6. defer' = NoLine /\ l2_resp' = rd
  BY DEF Edge, Respond, ReadHit, Looked, Refilling, fill_data
<1>7. ~Draining(busy) /\ ext_mem_wr_req' = NoWb
  BY DEF Draining, Edge, Issue
<1>8. PICK new : new = [valid |-> TRUE, dirty |-> FALSE, tag |-> c, data |-> rd]
  OBVIOUS
<1>9. lines' = [lines EXCEPT ![w][s] = new]
  BY <1>2, <1>3, <1>4, <1>5, <1>8
     DEF Edge, NextLines, Refilled, fill_data
<1>10. PICK old : old = lines[w][s]
  OBVIOUS
<1>11. RefillEvicts(rd) <=> old.valid /\ old.dirty
  BY <1>3, <1>4, <1>10 DEF RefillEvicts, DirtyVictim, Displaced
<1>12. Evicted(s) = [block |-> old.tag, data |-> old.data]
  BY <1>4, <1>10 DEF Evicted, Displaced
<1>13. evict' = NextEvict(rd, busy) /\ ~AbsorbEvicts(rd)
  BY <1>5 DEF Edge, AbsorbEvicts
<1>14. evict' = IF old.valid /\ old.dirty
                THEN <<[block |-> old.tag, data |-> old.data]>> ELSE <<>>
  <2>1. CASE RefillEvicts(rd)
    BY <1>3, <1>11, <1>12, <1>13, <2>1, PushIs
  <2>2. CASE ~RefillEvicts(rd)
    BY <1>7, <1>11, <1>13, <2>2 DEF NextEvict
  <2> QED BY <2>1, <2>2
<1>15. new.valid = TRUE /\ new.tag = c /\ new.data = rd
  BY <1>8
<1>16. Beneath(c) = rd /\ Stored(c) = rd
  BY <1>2, NoWbBlock DEF Beneath, Stored
<1>a. ~hit(c)
  BY <1>2
<1>b. Install(c, w, new)
  BY <1>3, <1>9, <1>10, <1>14, <1>15, <1>16 DEF Install
<1>17. /\ \A b \in Blocks : Stored(b)' = IF b = c THEN new.data ELSE Stored(b)
       /\ OneCopyInL2' /\ LinesInTheirSet' /\ CleanLinesAgree'
  BY <1>7, <1>a, <1>b, InstallStep
<1>18. [block |-> old.tag, data |-> old.data] \in WriteBacks
  BY <1>1, <1>12, EvictedType
<1> QED BY <1>5, <1>6, <1>7, <1>14, <1>15, <1>16, <1>17, <1>18

-----------------------------------------------------------------------------
(***************************************************************************)
(* The invariant.  An operation on block b is with L1, on the request      *)
(* port, in stage 1, in an MSHR, with the master, or on the answer port;   *)
(* at rest, and while it is answered, lines may still be on their way      *)
(* down, one behind the other.                                             *)
(***************************************************************************)
Ports(u, s, r) == unsent = u /\ sent = s /\ l2_req = r
NoFetch   == ~mem_busy /\ ext_mem_rd_req = NoBlock /\ \A i \in Mshrs : ~mshr[i].valid
NoAnswer  == l2_resp = NoLine /\ resp_for = NoBlock
NoRead    == rd_valid = FALSE /\ reading = FALSE
Cleared   == wb = NoWb /\ s1_wb = NoWb /\ evict = <<>> /\ ext_mem_wr_req = NoWb
DownIdle  == Cleared /\ serving = NoBlock

Descending ==
  \/ evict = <<>> /\ s1_wb = NoWb /\ serving = NoBlock
  \/ evict = <<>> /\ wb = NoWb /\ ext_mem_wr_req = NoWb
  \/ (\E e \in WriteBacks : evict = <<e>>) /\ wb = NoWb /\ s1_wb = NoWb
       /\ ext_mem_wr_req = NoWb

Rest == /\ Ports({}, {}, NoBlock) /\ s1_req = NoBlock
        /\ NoFetch /\ NoAnswer /\ NoRead /\ Descending

Missed(b)  == /\ Ports({b}, {}, NoBlock) /\ s1_req = NoBlock
              /\ NoFetch /\ NoAnswer /\ NoRead /\ DownIdle
Asking(b)  == /\ Ports({}, {b}, b) /\ s1_req = NoBlock
              /\ NoFetch /\ NoAnswer /\ NoRead /\ DownIdle
Looking(b) == /\ Ports({}, {b}, NoBlock) /\ s1_req = b
              /\ NoFetch /\ NoAnswer /\ NoRead /\ DownIdle

OnlyMiss(i, b) == /\ mshr[i].valid /\ mshr[i].block_addr = b
                  /\ \A j \in Mshrs \ {i} : ~mshr[j].valid

Recorded(b) ==
  /\ Ports({}, {b}, NoBlock) /\ s1_req = NoBlock /\ ~hit(b)
  /\ ~mem_busy /\ ext_mem_rd_req = NoBlock
  /\ NoAnswer /\ NoRead /\ DownIdle
  /\ \E i \in Mshrs : OnlyMiss(i, b) /\ ~mshr[i].mem_sent

\* The read is on the master's port, being served, or answered.
Reading(b) ==
  \/ ext_mem_rd_req = b /\ serving = NoBlock /\ NoRead
  \/ /\ ext_mem_rd_req = NoBlock /\ serving = b
     /\ reading = TRUE /\ rd_valid = FALSE
  \/ /\ ext_mem_rd_req = NoBlock /\ serving = NoBlock
     /\ reading = FALSE /\ rd_valid = TRUE /\ rd_data = mem[b]

Fetching(b) ==
  /\ Ports({}, {b}, NoBlock) /\ s1_req = NoBlock /\ ~hit(b)
  /\ mem_busy /\ OnlyMiss(mem_pend_id, b) /\ mshr[mem_pend_id].mem_sent
  /\ NoAnswer /\ Cleared /\ Reading(b)

Answering(b) ==
  /\ Ports({}, {b}, NoBlock) /\ s1_req = NoBlock
  /\ NoFetch /\ NoRead
  /\ l2_resp \in Lines /\ resp_for = b
  /\ wb = NoWb /\ s1_wb = NoWb /\ ext_mem_wr_req = NoWb /\ serving = NoBlock
  /\ evict = <<>> \/ \E e \in WriteBacks : evict = <<e>>

Operation(b) == \/ Missed(b) \/ Asking(b) \/ Looking(b)
                \/ Recorded(b) \/ Fetching(b) \/ Answering(b)
Phase == Rest \/ \E b \in Blocks \ held : Operation(b)

ClientTypeOK == held \subseteq Blocks /\ l2_req \in Reqs /\ wb \in Wbs
MemTypeOK == /\ mem \in [Blocks -> Lines] /\ serving \in Reqs
             /\ rd_valid \in BOOLEAN /\ rd_data \in Lines
Undeferred == defer = NoLine /\ defer_wb = NoWb

AInv == /\ USE_AVALON /\ ClientTypeOK /\ MemTypeOK /\ Undeferred
        /\ LinesInv /\ CleanLinesAgree /\ Phase

-----------------------------------------------------------------------------
(* The master in one cycle.                                                *)

LEMMA MasterType ==
  ASSUME TypeOK, MemTypeOK, NEW works \in BOOLEAN, Memory(works)
  PROVE  MemTypeOK'
<1>1. CASE works
  BY <1>1 DEF Memory, Work, memVars, MemTypeOK
<1>2. CASE ~works /\ TakeRead
  BY <1>2 DEF TakeRead, LM!AcceptRead, LM!Quiet, MemTypeOK, TypeOK, Reqs
<1>3. CASE ~works /\ TakeWrite
  <2>1. ext_mem_wr_req.block \in Blocks /\ ext_mem_wr_req.data \in Lines
    BY <1>3 DEF TakeWrite, TypeOK, WriteBacks
  <2> QED BY <1>3, <2>1 DEF TakeWrite, LM!AcceptWrite, LM!Quiet, MemTypeOK, Reqs
<1>4. CASE ~works /\ TakeNone
  BY <1>4 DEF TakeNone, LM!StayIdle, LM!Quiet, MemTypeOK
<1>5. CASE ~works /\ Finish
  BY <1>5 DEF Finish, LM!FinishRead, LM!FinishWrite, MemTypeOK, Reqs
<1> QED BY <1>1, <1>2, <1>3, <1>4, <1>5 DEF Memory

\* Idle and asked for nothing, it stays so.
LEMMA MasterIdle ==
  ASSUME NEW works \in BOOLEAN, Memory(works), serving = NoBlock,
         ext_mem_rd_req = NoBlock, ext_mem_wr_req = NoWb
  PROVE  /\ mem' = mem /\ serving' = NoBlock /\ reading' = reading
         /\ rd_valid' = FALSE
BY DEF Memory, Work, ext_mem_busy, TakeRead, TakeWrite, TakeNone, Finish,
       LM!StayIdle, LM!Quiet, LM!FinishRead, LM!FinishWrite

LEMMA MasterTakesWrite ==
  ASSUME NEW works \in BOOLEAN, Memory(works), serving = NoBlock,
         ext_mem_rd_req = NoBlock, ext_mem_wr_req # NoWb
  PROVE  /\ mem' = [mem EXCEPT ![ext_mem_wr_req.block] = ext_mem_wr_req.data]
         /\ reading' = FALSE /\ rd_valid' = FALSE
BY DEF Memory, Work, ext_mem_busy, TakeRead, TakeWrite, TakeNone, Finish,
       LM!AcceptWrite, LM!Quiet, LM!FinishRead, LM!FinishWrite

LEMMA MasterTakesRead ==
  ASSUME NEW works \in BOOLEAN, Memory(works), serving = NoBlock,
         ext_mem_rd_req # NoBlock
  PROVE  /\ mem' = mem /\ serving' = ext_mem_rd_req /\ reading' = TRUE
         /\ rd_valid' = FALSE
BY DEF Memory, Work, ext_mem_busy, TakeRead, TakeWrite, TakeNone, Finish,
       LM!AcceptRead, LM!Quiet, LM!FinishRead, LM!FinishWrite

\* Busy, it goes on, or finishes with or without a line.
LEMMA MasterServes ==
  ASSUME NEW works \in BOOLEAN, Memory(works), serving # NoBlock
  PROVE  /\ mem' = mem
         /\ \/ serving' = serving /\ reading' = reading /\ rd_valid' = rd_valid
            \/ /\ serving' = NoBlock /\ reading' = FALSE
               /\ IF reading THEN rd_valid' = TRUE /\ rd_data' = mem[serving]
                             ELSE rd_valid' = FALSE
BY DEF Memory, Work, memVars, ext_mem_busy, TakeRead, TakeWrite, TakeNone, Finish,
       LM!AcceptRead, LM!AcceptWrite, LM!StayIdle,
       LM!Quiet, LM!FinishRead, LM!FinishWrite

-----------------------------------------------------------------------------
(* One clock edge of L1, the L2 and the master at the driver's pace.       *)

PacedStep(miss, works) ==
  /\ miss # NoBlock => Quiet
  /\ AvalonStep(miss) /\ Memory(works)

LEMMA StepTypes ==
  ASSUME AInv, NEW miss \in Reqs, NEW works \in BOOLEAN, PacedStep(miss, works)
  PROVE  /\ Returned \in Reads /\ Edge(l2_req, wb, Returned, ext_mem_busy)
         /\ TypeOK' /\ MemTypeOK'
         /\ s1_req' = l2_req /\ s1_wb' = wb
<1>1. TypeOK /\ l2_req \in Reqs /\ wb \in Wbs /\ MemTypeOK
  BY DEF AInv, LinesInv, ClientTypeOK
<1>2. Returned \in Reads /\ ext_mem_busy \in BOOLEAN
  BY <1>1 DEF Returned, Reads, ext_mem_busy, MemTypeOK
<1>3. Edge(l2_req, wb, Returned, ext_mem_busy) /\ Memory(works)
  BY DEF PacedStep, AvalonStep, Returned
<1>4. TypeOK'
  BY <1>1, <1>2, <1>3, EdgeType
<1>5. MemTypeOK'
  BY <1>1, <1>3, MasterType
<1> QED BY <1>2, <1>3, <1>4, <1>5 DEF Edge

\* While a request is under way there is no new miss.
LEMMA NoNewMiss ==
  ASSUME NEW miss \in Reqs, NEW works \in BOOLEAN, PacedStep(miss, works), ~Quiet
  PROVE  miss = NoBlock
BY DEF PacedStep

\* What L1 does while no answer arrives and it records no miss.
LEMMA ClientWaits ==
  ASSUME NEW miss \in Reqs, NEW works \in BOOLEAN, PacedStep(miss, works),
         miss = NoBlock, l2_resp = NoLine
  PROVE  /\ wb' = NoWb /\ held' = held
         /\ unsent = {} => l2_req' = NoBlock /\ unsent' = {} /\ sent' = sent
         /\ \A b \in Blocks : unsent = {b} =>
              l2_req' = b /\ unsent' = {} /\ sent' = sent \cup {b}
<1>1. ClientEdge(NoBlock)
  BY DEF PacedStep, AvalonStep
<1>2. wb' = NoWb /\ held' = held /\ unsent' = unsent \ {l2_req'}
      /\ sent' = sent \cup ({l2_req'} \ {NoBlock})
  BY <1>1 DEF ClientEdge, Receive, NoMiss
<1>3. CASE unsent = {}
  BY <1>1, <1>2, <1>3 DEF ClientEdge, Request
<1>4. ASSUME NEW b \in Blocks, unsent = {b}
      PROVE  l2_req' = b /\ unsent' = {} /\ sent' = sent \cup {b}
  <2>1. l2_req' = b
    BY <1>1, <1>4 DEF ClientEdge, Request
  <2> QED BY <1>2, <1>4, <2>1, L2DataAssumption
<1> QED BY <1>2, <1>3, <1>4

(***************************************************************************)
(* Nothing is installed: the lines stay, and what is beneath moves down by *)
(* one place or not at all.                                                *)
(***************************************************************************)
LEMMA StillStep ==
  ASSUME AInv, NEW miss \in Reqs, NEW works \in BOOLEAN, PacedStep(miss, works),
         ~Refilling(Returned), s1_wb = NoWb,
         \/ evict = <<>> /\ ext_mem_wr_req = NoWb
         \/ evict = <<>> /\ serving = NoBlock /\ ext_mem_rd_req = NoBlock
         \/ (\E e \in WriteBacks : evict = <<e>>) /\ ext_mem_wr_req = NoWb
  PROVE  /\ lines' = lines /\ \A b \in Blocks : Stored(b)' = Stored(b)
         /\ LinesInv' /\ CleanLinesAgree' /\ Undeferred'
         /\ evict = <<>> => evict' = <<>> /\ ext_mem_wr_req' = NoWb
         /\ \A e \in WriteBacks : evict = <<e>> =>
              IF serving = NoBlock THEN evict' = <<>> /\ ext_mem_wr_req' = e
              ELSE evict' = <<e>> /\ ext_mem_wr_req' = NoWb
<1>1. /\ Returned \in Reads /\ Edge(l2_req, wb, Returned, ext_mem_busy)
      /\ TypeOK' /\ Memory(works)
  BY StepTypes DEF PacedStep
<1>2. /\ lines' = lines /\ defer' = NoLine /\ defer_wb' = NoWb
      /\ evict' = IF Draining(ext_mem_busy) THEN Tail(evict) ELSE evict
      /\ ext_mem_wr_req' = IF Draining(ext_mem_busy) THEN Head(evict) ELSE NoWb
  BY <1>1, StillEdge DEF AInv, Undeferred
<1>3. evict = <<>> => evict' = <<>> /\ ext_mem_wr_req' = NoWb
  BY <1>2 DEF Draining
<1>4. ASSUME NEW e \in WriteBacks, evict = <<e>>
      PROVE  IF serving = NoBlock THEN evict' = <<>> /\ ext_mem_wr_req' = e
             ELSE evict' = <<e>> /\ ext_mem_wr_req' = NoWb
  <2>1. evict # <<>> /\ Head(evict) = e /\ Tail(evict) = <<>>
    BY <1>4
  <2>2. Draining(ext_mem_busy) <=> serving = NoBlock
    BY <2>1 DEF Draining, ext_mem_busy, AInv
  <2> QED BY <1>2, <1>4, <2>1, <2>2
\* A write is taken by an idle master only.
<1>5. ASSUME NEW b \in Blocks PROVE Beneath(b)' = Beneath(b)
  <2>1. NoWb.block # b
    BY NoWbBlock
  <2>2. CASE evict = <<>> /\ ext_mem_wr_req = NoWb
    <3>1. mem' = mem
      <4>1. CASE serving = NoBlock /\ ext_mem_rd_req = NoBlock
        BY <1>1, <2>2, <4>1, MasterIdle
      <4>2. CASE serving = NoBlock /\ ext_mem_rd_req # NoBlock
        BY <1>1, <4>2, MasterTakesRead
      <4>3. CASE serving # NoBlock
        BY <1>1, <4>3, MasterServes
      <4> QED BY <4>1, <4>2, <4>3
    <3> QED BY <1>3, <2>1, <2>2, <3>1 DEF Beneath
  <2>3. CASE /\ evict = <<>> /\ ext_mem_wr_req # NoWb
             /\ serving = NoBlock /\ ext_mem_rd_req = NoBlock
    <3>1. mem' = [mem EXCEPT ![ext_mem_wr_req.block] = ext_mem_wr_req.data]
      BY <1>1, <2>3, MasterTakesWrite
    <3>2. mem'[b] = IF ext_mem_wr_req.block = b THEN ext_mem_wr_req.data ELSE mem[b]
      BY <3>1 DEF AInv, MemTypeOK
    <3> QED BY <1>3, <2>1, <2>3, <3>2 DEF Beneath
  <2>4. ASSUME NEW e \in WriteBacks, evict = <<e>>, ext_mem_wr_req = NoWb
        PROVE  Beneath(b)' = Beneath(b)
    <3>1. mem' = mem
      <4>1. CASE serving = NoBlock /\ ext_mem_rd_req = NoBlock
        BY <1>1, <2>4, <4>1, MasterIdle
      <4>2. CASE serving = NoBlock /\ ext_mem_rd_req # NoBlock
        BY <1>1, <4>2, MasterTakesRead
      <4>3. CASE serving # NoBlock
        BY <1>1, <4>3, MasterServes
      <4> QED BY <4>1, <4>2, <4>3
    <3>2. evict # <<>> /\ evict[1] = e /\ <<e>> # <<>> /\ <<e>>[1] = e
      BY <2>4
    <3>3. CASE serving = NoBlock
      BY <1>4, <2>1, <2>4, <3>1, <3>2, <3>3 DEF Beneath
    <3>4. CASE serving # NoBlock
      BY <1>4, <2>1, <2>4, <3>1, <3>2, <3>4 DEF Beneath
    <3> QED BY <3>3, <3>4
  <2> QED BY <2>2, <2>3, <2>4
<1>6. LinesInv /\ CleanLinesAgree
  BY DEF AInv
<1>7. /\ \A b \in Blocks : Stored(b)' = Stored(b)
      /\ OneCopyInL2' /\ LinesInTheirSet' /\ CleanLinesAgree'
  BY <1>2, <1>5, <1>6, LinesKept
<1> QED BY <1>1, <1>2, <1>3, <1>4, <1>7 DEF LinesInv, Undeferred

-----------------------------------------------------------------------------
(* The store of lines.                                                     *)

\* Where a line's newest version is while nothing is deferred.
View(b) == IF wb.block = b THEN wb.data
           ELSE IF s1_wb.block = b THEN s1_wb.data
           ELSE Stored(b)

OneEvicted == evict = <<>> \/ \E e \in WriteBacks : evict = <<e>>

LEMMA NewestIsView ==
  Undeferred /\ OneEvicted => \A b \in Blocks : Newest(mem, b) = View(b)
BY NewestIs DEF Undeferred, OneEvicted, View

LEMMA NewestIsViewThen ==
  (Undeferred /\ OneEvicted)' => \A b \in Blocks : Newest(mem, b)' = View(b)'
<1>1. (Undeferred /\ OneEvicted => \A b \in Blocks : Newest(mem, b) = View(b))'
  BY NewestIsView, PTL
<1> QED BY <1>1

LEMMA PhaseIsShort == AInv => OneEvicted /\ Undeferred
BY DEF AInv, Phase, Rest, Operation, Missed, Asking, Looking, Recorded, Fetching,
       Answering, DownIdle, Cleared, Descending, OneEvicted

LEMMA PhaseIsShortThen == AInv' => OneEvicted' /\ Undeferred'
<1>1. (AInv => OneEvicted /\ Undeferred)'
  BY PhaseIsShort, PTL
<1> QED BY <1>1

LEMMA KeptStep ==
  ASSUME AInv, AInv', wb' = NoWb, \A b \in Blocks : View(b)' = View(b)
  PROVE  AvalonLS!Kept
<1>1. \A b \in Blocks : Newest(mem, b)' = Newest(mem, b)
  BY PhaseIsShort, PhaseIsShortThen, NewestIsView, NewestIsViewThen
<1>2. [b \in Blocks |-> Newest(mem, b)]' = [b \in Blocks |-> Newest(mem, b)]
  BY <1>1
<1> QED BY <1>2 DEF AvalonLS!Kept

LEMMA HandedDownStep ==
  ASSUME AInv, AInv', NEW v \in Blocks, NEW l \in Lines, v \notin sent \ {resp_for},
         wb' = [block |-> v, data |-> l],
         \A b \in Blocks : View(b)' = IF b = v THEN l ELSE View(b)
  PROVE  AvalonLS!HandedDown(v, l)
<1>1. \A b \in Blocks : Newest(mem, b)' = IF b = v THEN l ELSE Newest(mem, b)
  BY PhaseIsShort, PhaseIsShortThen, NewestIsView, NewestIsViewThen
<1>2. [b \in Blocks |-> Newest(mem, b)]' =
        [[b \in Blocks |-> Newest(mem, b)] EXCEPT ![v] = l]
  BY <1>1
<1> QED BY <1>2 DEF AvalonLS!HandedDown

\* No answer; at most one more block asked for.
LEMMA SilentStep ==
  ASSUME AInv, AInv', NoAnswer, NoAnswer', wb' = NoWb,
         \A b \in Blocks : View(b)' = View(b), sent \subseteq Blocks,
         sent' = sent \/ \E b \in Blocks \ sent : sent' = sent \cup {b}
  PROVE  AvalonLS!LSNext
<1>1. AvalonLS!Kept
  BY KeptStep
<1>2. AvalonLS!Silent
  BY DEF NoAnswer, AvalonLS!Silent
<1>3. /\ sent \ {resp_for} = sent /\ resp_for' = NoBlock
      /\ (sent \ {resp_for})' = sent' \ {NoBlock}
  BY L2DataAssumption DEF NoAnswer
<1>4. CASE sent' = sent
  <2>1. AvalonLS!Fetched({})
    BY <1>3, <1>4, L2DataAssumption DEF AvalonLS!Fetched
  <2> QED BY <1>1, <1>2, <2>1 DEF AvalonLS!LSNext
<1>5. ASSUME NEW b \in Blocks \ sent, sent' = sent \cup {b} PROVE AvalonLS!LSNext
  <2>1. AvalonLS!Fetched({b})
    BY <1>3, <1>5, L2DataAssumption DEF AvalonLS!Fetched
  <2> QED BY <1>1, <1>2, <2>1 DEF AvalonLS!LSNext
<1> QED BY <1>4, <1>5

\* The one block asked for is answered with its newest version.
LEMMA AnswerStep ==
  ASSUME AInv, AInv', NoAnswer, wb = NoWb, wb' = NoWb,
         \A b \in Blocks : View(b)' = View(b),
         NEW b \in Blocks, sent = {b}, sent' = {b}, resp_for' = b, l2_resp' = View(b)
  PROVE  AvalonLS!LSNext
<1>1. AvalonLS!Kept
  BY KeptStep
<1>2. sent \ {resp_for} = {b} /\ (sent \ {resp_for})' = {}
  BY L2DataAssumption DEF NoAnswer
<1>3. Newest(mem, b) = View(b)
  BY PhaseIsShort, NewestIsView
<1>4. [c \in Blocks |-> Newest(mem, c)][b] = View(b)
  BY <1>3
<1>5. AvalonLS!Answered(b)
  BY <1>2, <1>4 DEF AvalonLS!Answered
<1>6. AvalonLS!Fetched({})
  BY <1>2 DEF AvalonLS!Fetched
<1> QED BY <1>1, <1>5, <1>6 DEF AvalonLS!LSNext

-----------------------------------------------------------------------------
(***************************************************************************)
(* The step from each phase: the invariant again, and a step of the store  *)
(* of lines.                                                               *)
(***************************************************************************)
LineStep == AInv' /\ AvalonLS!LSNext

\* With no fetch under way and nothing latched, none begins and nothing is
\* answered.
LEMMA NothingFetched ==
  ASSUME AInv, NEW miss \in Reqs, NEW works \in BOOLEAN, PacedStep(miss, works),
         NoFetch, s1_req = NoBlock
  PROVE  NoFetch' /\ NoAnswer' /\ ~Refilling(Returned)
<1>1. TypeOK /\ l2_req \in Reqs /\ wb \in Wbs /\ Returned \in Reads
      /\ ext_mem_busy \in BOOLEAN /\ Edge(l2_req, wb, Returned, ext_mem_busy)
  BY StepTypes DEF AInv, LinesInv, ClientTypeOK, ext_mem_busy
<1>2. ~Refilling(Returned) /\ ~Looked /\ ~ReadHit
  BY DEF NoFetch, Refilling, Looked, ReadHit
<1>3. Unsent = {} /\ ~Issues(ext_mem_busy)
  BY DEF NoFetch, Unsent, Issues
<1>4. \A i \in Mshrs : ~mshr'[i].valid
  <2>1. \A i \in Mshrs : ~Allocates(i)
    BY <1>2 DEF Allocates, ReadMiss
  <2> QED BY <1>1, <2>1, MshrStep DEF NoFetch
<1>5. mem_busy' = FALSE /\ ext_mem_rd_req' = NoBlock
  BY <1>1, <1>3 DEF Edge, Issue, MemBusy, NoFetch, TypeOK
<1>6. l2_resp' = NoLine
  BY <1>1, <1>2 DEF Edge, Respond, AInv, Undeferred
<1>7. resp_for' = NoBlock
  BY <1>2 DEF PacedStep, AvalonStep, Label, Returned, AInv, Undeferred
<1> QED BY <1>2, <1>4, <1>5, <1>6, <1>7 DEF NoFetch, NoAnswer

\* Nothing on its way down, nothing comes up: the newest versions stay.
LEMMA StillView ==
  ASSUME AInv, NEW miss \in Reqs, NEW works \in BOOLEAN, PacedStep(miss, works),
         Cleared, l2_resp = NoLine, ~Refilling(Returned)
  PROVE  /\ \A b \in Blocks : View(b)' = View(b) /\ (hit(b)' <=> hit(b))
         /\ LinesInv' /\ CleanLinesAgree' /\ Undeferred' /\ MemTypeOK'
         /\ Cleared' /\ held' = held
<1>1. /\ lines' = lines /\ \A b \in Blocks : Stored(b)' = Stored(b)
      /\ LinesInv' /\ CleanLinesAgree' /\ Undeferred'
      /\ evict' = <<>> /\ ext_mem_wr_req' = NoWb
  BY StillStep DEF Cleared
<1>2. wb' = NoWb /\ held' = held
  BY DEF PacedStep, AvalonStep, ClientEdge, Receive
<1>3. s1_wb' = NoWb /\ MemTypeOK'
  BY StepTypes DEF Cleared
<1>4. ASSUME NEW b \in Blocks PROVE View(b)' = View(b)
  BY <1>1, <1>2, <1>3, NoWbBlock DEF View, Cleared
<1>5. ASSUME NEW b \in Blocks PROVE hit(b)' <=> hit(b)
  BY <1>1 DEF hit, HitWays
<1> QED BY <1>1, <1>2, <1>3, <1>4, <1>5 DEF Cleared

LEMMA IdleStep ==
  ASSUME AInv, NEW miss \in Reqs, NEW works \in BOOLEAN, PacedStep(miss, works),
         NoFetch, NoAnswer, NoRead, DownIdle, s1_req = NoBlock
  PROVE  /\ \A b \in Blocks : View(b)' = View(b)
         /\ LinesInv' /\ CleanLinesAgree' /\ Undeferred' /\ MemTypeOK'
         /\ NoFetch' /\ NoAnswer' /\ NoRead' /\ DownIdle'
         /\ wb' = NoWb /\ held' = held /\ s1_req' = l2_req
<1>1. NoFetch' /\ NoAnswer' /\ ~Refilling(Returned)
  BY NothingFetched
<1>2. /\ \A b \in Blocks : View(b)' = View(b) /\ (hit(b)' <=> hit(b))
      /\ LinesInv' /\ CleanLinesAgree' /\ Undeferred' /\ MemTypeOK'
      /\ Cleared' /\ held' = held
  BY <1>1, StillView DEF NoAnswer, DownIdle
<1>3. serving' = NoBlock /\ reading' = reading /\ rd_valid' = FALSE
  BY MasterIdle DEF PacedStep, DownIdle, Cleared, NoFetch
<1> QED BY <1>1, <1>2, <1>3, StepTypes DEF NoRead, DownIdle, Cleared

\* L1 records a miss.
LEMMA FromRestMiss ==
  ASSUME AInv, Rest, NEW miss \in Blocks, NEW works \in BOOLEAN, PacedStep(miss, works)
  PROVE  LineStep
<1>1. miss # NoBlock /\ miss \in Reqs /\ Quiet
  BY L2DataAssumption DEF PacedStep, Reqs
<1>2. DownIdle /\ unsent = {} /\ sent = {} /\ l2_req = NoBlock
  BY <1>1 DEF Quiet, Rest, Ports, DownIdle, Cleared, ext_mem_busy
<1>3. /\ \A b \in Blocks : View(b)' = View(b)
      /\ LinesInv' /\ CleanLinesAgree' /\ Undeferred' /\ MemTypeOK'
      /\ NoFetch' /\ NoAnswer' /\ NoRead' /\ DownIdle'
      /\ wb' = NoWb /\ held' = held /\ s1_req' = l2_req
  BY <1>1, <1>2, IdleStep DEF Rest
<1>4. ClientEdge(miss) /\ l2_resp = NoLine
  BY DEF PacedStep, AvalonStep, Rest, NoAnswer
<1>5. /\ l2_req' = NoBlock /\ unsent' = {miss} /\ sent' = {}
      /\ miss \in Blocks \ held
  BY <1>1, <1>2, <1>4 DEF ClientEdge, Request, MissOf
<1>6. Missed(miss)'
  BY <1>2, <1>3, <1>5 DEF Missed, Ports
<1>7. AInv'
  BY <1>3, <1>5, <1>6 DEF AInv, ClientTypeOK, Phase, Operation, Reqs, Wbs
<1>8. AvalonLS!LSNext
  BY <1>2, <1>3, <1>5, <1>7, SilentStep DEF Rest
<1> QED BY <1>7, <1>8 DEF LineStep

LEMMA FromMissed ==
  ASSUME AInv, NEW b \in Blocks \ held, Missed(b),
         NEW miss \in Reqs, NEW works \in BOOLEAN, PacedStep(miss, works)
  PROVE  LineStep
<1>1. /\ \A c \in Blocks : View(c)' = View(c)
      /\ LinesInv' /\ CleanLinesAgree' /\ Undeferred' /\ MemTypeOK'
      /\ NoFetch' /\ NoAnswer' /\ NoRead' /\ DownIdle'
      /\ wb' = NoWb /\ held' = held /\ s1_req' = l2_req
  BY IdleStep DEF Missed
<1>2. miss = NoBlock
  BY NoNewMiss DEF Missed, Ports, Quiet
<1>3. l2_req' = b /\ unsent' = {} /\ sent' = {b} /\ sent = {}
  BY <1>2, ClientWaits DEF Missed, Ports, NoAnswer
<1>4. Asking(b)'
  BY <1>1, <1>3 DEF Asking, Missed, Ports
<1>5. AInv'
  BY <1>1, <1>3, <1>4 DEF AInv, ClientTypeOK, Phase, Operation, Reqs, Wbs
<1>6. AvalonLS!LSNext
  BY <1>1, <1>3, <1>5, SilentStep DEF Missed
<1> QED BY <1>5, <1>6 DEF LineStep

LEMMA FromAsking ==
  ASSUME AInv, NEW b \in Blocks \ held, Asking(b),
         NEW miss \in Reqs, NEW works \in BOOLEAN, PacedStep(miss, works)
  PROVE  LineStep
<1>1. /\ \A c \in Blocks : View(c)' = View(c)
      /\ LinesInv' /\ CleanLinesAgree' /\ Undeferred' /\ MemTypeOK'
      /\ NoFetch' /\ NoAnswer' /\ NoRead' /\ DownIdle'
      /\ wb' = NoWb /\ held' = held /\ s1_req' = l2_req
  BY IdleStep DEF Asking
<1>2. miss = NoBlock
  BY NoNewMiss DEF Asking, Ports, Quiet
<1>3. l2_req' = NoBlock /\ unsent' = {} /\ sent' = {b} /\ sent = {b}
  BY <1>2, ClientWaits DEF Asking, Ports, NoAnswer
<1>4. Looking(b)'
  BY <1>1, <1>3 DEF Looking, Asking, Ports
<1>5. AInv'
  BY <1>1, <1>3, <1>4 DEF AInv, ClientTypeOK, Phase, Operation, Reqs, Wbs
<1>6. AvalonLS!LSNext
  BY <1>1, <1>3, <1>5, SilentStep DEF Asking
<1> QED BY <1>5, <1>6 DEF LineStep

\* A master that reads nothing and is not asked to read returns nothing.
LEMMA NoReadKept ==
  ASSUME NEW works \in BOOLEAN, Memory(works), NoRead, ext_mem_rd_req = NoBlock
  PROVE  NoRead'
<1>1. CASE serving = NoBlock /\ ext_mem_wr_req = NoWb
  BY <1>1, MasterIdle DEF NoRead
<1>2. CASE serving = NoBlock /\ ext_mem_wr_req # NoWb
  BY <1>2, MasterTakesWrite DEF NoRead
<1>3. CASE serving # NoBlock
  BY <1>3, MasterServes DEF NoRead
<1> QED BY <1>1, <1>2, <1>3

\* At rest, lines on their way down move on.
LEMMA Descent ==
  ASSUME AInv, Rest, NEW miss \in Reqs, NEW works \in BOOLEAN,
         PacedStep(miss, works), wb' = NoWb
  PROVE  /\ \A b \in Blocks : View(b)' = View(b)
         /\ LinesInv' /\ CleanLinesAgree' /\ Undeferred' /\ Descending'
<1>1. /\ Returned \in Reads /\ Edge(l2_req, wb, Returned, ext_mem_busy)
      /\ TypeOK' /\ s1_wb' = wb /\ Memory(works) /\ ~Refilling(Returned)
  BY StepTypes, NothingFetched DEF Rest, PacedStep
<1>2. ext_mem_rd_req = NoBlock /\ LinesInv /\ CleanLinesAgree /\ Undeferred
  BY DEF Rest, NoFetch, AInv
<1>3. CASE evict = <<>> /\ s1_wb = NoWb /\ (serving = NoBlock \/ ext_mem_wr_req = NoWb)
  <2>1. /\ \A b \in Blocks : Stored(b)' = Stored(b)
        /\ LinesInv' /\ CleanLinesAgree' /\ Undeferred'
        /\ evict' = <<>> /\ ext_mem_wr_req' = NoWb
    BY <1>1, <1>2, <1>3, StillStep
  <2>2. ASSUME NEW b \in Blocks PROVE View(b)' = View(b)
    BY <1>1, <1>3, <2>1, NoWbBlock DEF View
  <2> QED BY <2>1, <2>2 DEF Descending
<1>4. CASE evict = <<>> /\ s1_wb # NoWb /\ wb = NoWb /\ ext_mem_wr_req = NoWb
  <2>1. s1_wb \in WriteBacks
    BY <1>2, <1>4 DEF LinesInv, TypeOK
  <2>2. mem' = mem
    BY <1>1, <1>2, <1>4, MasterIdle, MasterServes
  <2>3. /\ \A b \in Blocks :
             Stored(b)' = IF b = s1_wb.block THEN s1_wb.data ELSE Stored(b)
        /\ OneCopyInL2' /\ LinesInTheirSet' /\ CleanLinesAgree'
        /\ defer' = NoLine /\ defer_wb' = NoWb /\ ext_mem_wr_req' = NoWb
        /\ evict' = <<>> \/ \E e \in WriteBacks : evict' = <<e>>
    BY <1>1, <1>2, <1>4, <2>1, <2>2, AbsorbEdge DEF Undeferred, AInv
  <2>4. ASSUME NEW b \in Blocks PROVE View(b)' = View(b)
    BY <1>1, <1>4, <2>3, NoWbBlock DEF View
  <2> QED BY <1>1, <1>4, <2>3, <2>4 DEF LinesInv, Undeferred, Descending
<1>5. ASSUME NEW e \in WriteBacks, evict = <<e>>, wb = NoWb, s1_wb = NoWb,
             ext_mem_wr_req = NoWb
      PROVE  /\ \A b \in Blocks : View(b)' = View(b)
             /\ LinesInv' /\ CleanLinesAgree' /\ Undeferred' /\ Descending'
  <2>1. /\ \A b \in Blocks : Stored(b)' = Stored(b)
        /\ LinesInv' /\ CleanLinesAgree' /\ Undeferred'
        /\ IF serving = NoBlock THEN evict' = <<>> /\ ext_mem_wr_req' = e
           ELSE evict' = <<e>> /\ ext_mem_wr_req' = NoWb
    BY <1>1, <1>5, StillStep
  <2>2. ASSUME NEW b \in Blocks PROVE View(b)' = View(b)
    BY <1>1, <1>5, <2>1, NoWbBlock DEF View
  <2>3. Descending'
    <3>1. CASE serving = NoBlock
      BY <1>1, <1>2, <1>5, <2>1, <3>1, MasterIdle DEF Descending
    <3>2. CASE serving # NoBlock
      BY <1>1, <1>5, <2>1, <3>2 DEF Descending
    <3> QED BY <3>1, <3>2
  <2> QED BY <2>1, <2>2, <2>3
<1> QED BY <1>3, <1>4, <1>5 DEF Rest, Descending

LEMMA FromRest ==
  ASSUME AInv, Rest, NEW miss \in Reqs, NEW works \in BOOLEAN, PacedStep(miss, works)
  PROVE  LineStep
<1>1. CASE miss = NoBlock
  <2>1. /\ wb' = NoWb /\ held' = held /\ l2_req' = NoBlock
        /\ unsent' = {} /\ sent' = {} /\ sent = {}
    BY <1>1, ClientWaits DEF Rest, Ports, NoAnswer
  <2>2. /\ \A b \in Blocks : View(b)' = View(b)
        /\ LinesInv' /\ CleanLinesAgree' /\ Undeferred' /\ Descending'
    BY <2>1, Descent
  <2>3. NoFetch' /\ NoAnswer'
    BY NothingFetched DEF Rest
  <2>4. NoRead'
    BY NoReadKept DEF PacedStep, Rest, NoFetch
  <2>5. MemTypeOK' /\ s1_req' = NoBlock
    BY StepTypes DEF Rest, Ports
  <2>6. Rest'
    BY <2>1, <2>2, <2>3, <2>4, <2>5 DEF Rest, Ports
  <2>7. AInv'
    BY <2>1, <2>2, <2>5, <2>6 DEF AInv, ClientTypeOK, Phase, Reqs, Wbs
  <2>8. AvalonLS!LSNext
    BY <2>1, <2>2, <2>3, <2>7, SilentStep DEF Rest
  <2> QED BY <2>7, <2>8 DEF LineStep
<1>2. CASE miss \in Blocks
  BY <1>2, FromRestMiss
<1> QED BY <1>1, <1>2 DEF Reqs

\* The request is looked up: it hits, or takes an MSHR.
LEMMA FromLooking ==
  ASSUME AInv, NEW b \in Blocks \ held, Looking(b),
         NEW miss \in Reqs, NEW works \in BOOLEAN, PacedStep(miss, works)
  PROVE  LineStep
<1>1. /\ unsent = {} /\ sent = {b} /\ l2_req = NoBlock /\ s1_req = b
      /\ NoFetch /\ NoAnswer /\ NoRead /\ DownIdle /\ b # NoBlock
  BY L2DataAssumption DEF Looking, Ports
<1>2. /\ Returned \in Reads /\ Edge(l2_req, wb, Returned, ext_mem_busy)
      /\ TypeOK /\ l2_req \in Reqs /\ wb \in Wbs /\ ext_mem_busy \in BOOLEAN
      /\ s1_req' = NoBlock
  BY <1>1, StepTypes DEF AInv, LinesInv, ClientTypeOK, ext_mem_busy
<1>3. miss = NoBlock
  BY <1>1, NoNewMiss DEF Quiet
<1>4. /\ held' = held /\ wb' = NoWb /\ l2_req' = NoBlock
      /\ unsent' = {} /\ sent' = {b}
  BY <1>1, <1>3, ClientWaits DEF NoAnswer
<1>5. ~Refilling(Returned) /\ defer = NoLine /\ Looked
  BY <1>1 DEF NoFetch, Refilling, AInv, Undeferred, Looked
<1>6. /\ \A c \in Blocks : View(c)' = View(c) /\ (hit(c)' <=> hit(c))
      /\ LinesInv' /\ CleanLinesAgree' /\ Undeferred' /\ MemTypeOK' /\ Cleared'
  BY <1>1, <1>5, StillView DEF DownIdle, NoAnswer
<1>7. serving' = NoBlock /\ NoRead'
  BY <1>1, MasterIdle DEF PacedStep, DownIdle, Cleared, NoFetch, NoRead
<1>8. mem_busy' = FALSE /\ ext_mem_rd_req' = NoBlock
  <2>1. Unsent = {} /\ ~Issues(ext_mem_busy)
    BY <1>1 DEF NoFetch, Unsent, Issues
  <2> QED BY <1>1, <1>2, <2>1 DEF Edge, Issue, MemBusy, NoFetch, TypeOK
<1>9. ASSUME Answering(b)' \/ Recorded(b)' PROVE AInv'
  BY <1>4, <1>6, <1>9 DEF AInv, ClientTypeOK, Phase, Operation, Reqs, Wbs
<1>10. CASE hit(b)
  <2>1. ReadHit /\ ~ReadMiss
    BY <1>1, <1>5, <1>10 DEF ReadHit, ReadMiss
  <2>2. l2_resp' = HitLine(b) /\ HitLine(b) \in Lines
    BY <1>1, <1>2, <1>5, <1>10, <2>1, HitLineType DEF Edge, Respond
  <2>3. resp_for' = b
    BY <1>1, <1>5, <2>1 DEF PacedStep, AvalonStep, Label, Returned
  <2>4. \A i \in Mshrs : ~mshr'[i].valid
    <3>1. \A i \in Mshrs : ~Allocates(i)
      BY <2>1 DEF Allocates
    <3> QED BY <1>1, <1>2, <3>1, MshrStep DEF NoFetch
  <2>5. Answering(b)'
    BY <1>1, <1>2, <1>4, <1>6, <1>7, <1>8, <2>2, <2>3, <2>4
       DEF Answering, Ports, NoFetch, Cleared
  <2>6. View(b) = HitLine(b)
    BY <1>1, <1>10, NoWbBlock DEF View, Stored, DownIdle, Cleared
  <2>7. wb = NoWb
    BY <1>1 DEF DownIdle, Cleared
  <2>8. AInv'
    BY <1>9, <2>5
  <2>9. AvalonLS!LSNext
    BY <1>1, <1>4, <1>6, <2>2, <2>3, <2>6, <2>7, <2>8, AnswerStep
  <2> QED BY <2>8, <2>9 DEF LineStep
<1>11. CASE ~hit(b)
  <2>1. ReadMiss /\ ~ReadHit /\ MshrOf(s1_req) = {}
    BY <1>1, <1>5, <1>11 DEF ReadHit, ReadMiss, MshrOf, NoFetch
  <2>2. PICK i \in Mshrs : i = LeastOf(FreeMshrs) /\ Allocates(i)
    <3>1. 0 \in Mshrs
      BY L2SizeAssumption DEF Mshrs
    <3>2. FreeMshrs # {}
      BY <1>1, <3>1 DEF FreeMshrs, NoFetch
    <3>3. LeastOf(FreeMshrs) \in Mshrs
      BY <1>2, <3>2, MshrChoice DEF FreeMshrs
    <3> QED BY <2>1, <3>2, <3>3 DEF Allocates
  <2>3. \A j \in Mshrs \ {i} : ~Allocates(j)
    BY <2>2 DEF Allocates
  <2>4. mshr'[i] = [valid |-> TRUE, block_addr |-> b, mem_sent |-> FALSE]
    BY <1>1, <1>2, <2>2, MshrStep
  <2>5. \A j \in Mshrs \ {i} : ~mshr'[j].valid
    BY <1>1, <1>2, <2>3, MshrStep DEF NoFetch
  <2>6. OnlyMiss(i, b)' /\ ~mshr'[i].mem_sent
    BY <2>4, <2>5 DEF OnlyMiss
  <2>7. NoAnswer'
    BY <1>2, <1>5, <2>1 DEF PacedStep, AvalonStep, Label, Returned, Edge, Respond,
                            NoAnswer
  <2>8. Recorded(b)'
    BY <1>2, <1>4, <1>6, <1>7, <1>8, <1>11, <2>6, <2>7
       DEF Recorded, Ports, DownIdle
  <2>9. AInv'
    BY <1>9, <2>8
  <2>10. AvalonLS!LSNext
    BY <1>1, <1>4, <1>6, <2>7, <2>9, SilentStep
  <2> QED BY <2>9, <2>10 DEF LineStep
<1> QED BY <1>10, <1>11

\* The read is put on the master's port.
LEMMA FromRecorded ==
  ASSUME AInv, NEW b \in Blocks \ held, Recorded(b),
         NEW miss \in Reqs, NEW works \in BOOLEAN, PacedStep(miss, works)
  PROVE  LineStep
<1>1. /\ unsent = {} /\ sent = {b} /\ l2_req = NoBlock /\ s1_req = NoBlock
      /\ ~mem_busy /\ ext_mem_rd_req = NoBlock /\ ~hit(b)
      /\ NoAnswer /\ NoRead /\ DownIdle
  BY DEF Recorded, Ports
<1>2. /\ Returned \in Reads /\ Edge(l2_req, wb, Returned, ext_mem_busy)
      /\ TypeOK /\ l2_req \in Reqs /\ wb \in Wbs /\ ext_mem_busy \in BOOLEAN
      /\ s1_req' = NoBlock
  BY <1>1, StepTypes DEF AInv, LinesInv, ClientTypeOK, ext_mem_busy
<1>3. miss = NoBlock
  BY <1>1, NoNewMiss DEF Quiet
<1>4. /\ held' = held /\ wb' = NoWb /\ l2_req' = NoBlock
      /\ unsent' = {} /\ sent' = {b}
  BY <1>1, <1>3, ClientWaits DEF NoAnswer
<1>5. ~Refilling(Returned) /\ ~Looked /\ ~ReadHit /\ ~ReadMiss
  BY <1>1 DEF Refilling, Looked, ReadHit, ReadMiss
<1>6. /\ \A c \in Blocks : View(c)' = View(c) /\ (hit(c)' <=> hit(c))
      /\ LinesInv' /\ CleanLinesAgree' /\ Undeferred' /\ MemTypeOK' /\ Cleared'
  BY <1>1, <1>5, StillView DEF DownIdle, NoAnswer
<1>7. serving' = NoBlock /\ NoRead'
  BY <1>1, MasterIdle DEF PacedStep, DownIdle, Cleared, NoRead
<1>8. NoAnswer'
  BY <1>2, <1>5 DEF PacedStep, AvalonStep, Label, Returned, Edge, Respond,
                    NoAnswer, AInv, Undeferred
<1>9. PICK i \in Mshrs : OnlyMiss(i, b) /\ ~mshr[i].mem_sent
  BY DEF Recorded
<1>10. Unsent # {} /\ LeastOf(Unsent) = i
  <2>1. Unsent = {i}
    BY <1>9 DEF Unsent, OnlyMiss
  <2> QED BY <1>2, <2>1, MshrChoice
<1>11. Issues(ext_mem_busy) /\ Issuing(ext_mem_busy, i)
  BY <1>1, <1>10 DEF Issues, Issuing, CanIssue, DownIdle, Cleared, ext_mem_busy
<1>12. mem_busy' = TRUE /\ mem_pend_id' = i /\ ext_mem_rd_req' = b
  BY <1>2, <1>9, <1>10, <1>11
     DEF Edge, Issue, MemBusy, OnlyMiss, AInv
<1>13. \A j \in Mshrs : ~Allocates(j)
  BY <1>5 DEF Allocates
<1>14. /\ mshr'[i].valid /\ mshr'[i].block_addr = b /\ mshr'[i].mem_sent
       /\ \A j \in Mshrs \ {i} : ~mshr'[j].valid
  <2>1. mshr'[i].valid /\ mshr'[i].block_addr = b /\ mshr'[i].mem_sent
    BY <1>2, <1>5, <1>9, <1>11, <1>13, MshrStep DEF OnlyMiss
  <2>2. \A j \in Mshrs \ {i} : ~mshr'[j].valid
    BY <1>2, <1>9, <1>13, MshrStep DEF OnlyMiss
  <2> QED BY <2>1, <2>2
<1>15. Fetching(b)'
  <2>1. OnlyMiss(mem_pend_id, b)' /\ mshr'[mem_pend_id'].mem_sent
    BY <1>12, <1>14 DEF OnlyMiss
  <2>2. Reading(b)'
    BY <1>7, <1>12 DEF Reading
  <2> QED BY <1>1, <1>2, <1>4, <1>6, <1>8, <1>12, <2>1, <2>2 DEF Fetching, Ports
<1>16. AInv'
  BY <1>4, <1>6, <1>15 DEF AInv, ClientTypeOK, Phase, Operation, Reqs, Wbs
<1>17. AvalonLS!LSNext
  BY <1>1, <1>4, <1>6, <1>8, <1>16, SilentStep
<1> QED BY <1>16, <1>17 DEF LineStep

\* The master reads, and its answer is installed and passed on.
LEMMA FromFetching ==
  ASSUME AInv, NEW b \in Blocks \ held, Fetching(b),
         NEW miss \in Reqs, NEW works \in BOOLEAN, PacedStep(miss, works)
  PROVE  LineStep
<1>1. /\ unsent = {} /\ sent = {b} /\ l2_req = NoBlock /\ s1_req = NoBlock
      /\ mem_busy /\ ~hit(b) /\ NoAnswer /\ Cleared /\ Reading(b)
      /\ OnlyMiss(mem_pend_id, b) /\ mshr[mem_pend_id].mem_sent
  BY DEF Fetching, Ports
<1>2. /\ Returned \in Reads /\ Edge(l2_req, wb, Returned, ext_mem_busy)
      /\ TypeOK /\ l2_req \in Reqs /\ wb \in Wbs /\ ext_mem_busy \in BOOLEAN
      /\ s1_req' = NoBlock /\ TypeOK' /\ MemTypeOK' /\ s1_wb' = NoWb
      /\ Memory(works)
  BY <1>1, StepTypes DEF AInv, LinesInv, ClientTypeOK, ext_mem_busy, Cleared, PacedStep
<1>3. miss = NoBlock
  BY <1>1, NoNewMiss DEF Quiet
<1>4. /\ held' = held /\ wb' = NoWb /\ l2_req' = NoBlock
      /\ unsent' = {} /\ sent' = {b}
  BY <1>1, <1>3, ClientWaits DEF NoAnswer
<1>5. ~Looked /\ ~ReadHit /\ ~ReadMiss /\ \A j \in Mshrs : ~Allocates(j)
  BY <1>1 DEF Looked, ReadHit, ReadMiss, Allocates
<1>6. ~Issues(ext_mem_busy) /\ \A j \in Mshrs : ~Issuing(ext_mem_busy, j)
  BY <1>1 DEF Issues, Issuing, CanIssue
<1>7. ext_mem_rd_req' = NoBlock /\ mem_pend_id' = mem_pend_id /\ mem_pend_id \in Mshrs
      /\ mem_busy' = (mem_busy /\ ~Refilling(Returned))
  BY <1>2, <1>6 DEF Edge, Issue, MemBusy, TypeOK
<1>8. fill_blk = b /\ b # NoBlock
  BY <1>1, L2DataAssumption DEF fill_blk, OnlyMiss
<1>9. /\ mshr'[mem_pend_id].valid <=> ~Refilling(Returned)
      /\ mshr'[mem_pend_id].block_addr = b /\ mshr'[mem_pend_id].mem_sent
      /\ \A j \in Mshrs \ {mem_pend_id} : ~mshr'[j].valid
  <2>1. /\ mshr'[mem_pend_id].valid <=> ~Refilling(Returned)
        /\ mshr'[mem_pend_id].block_addr = b /\ mshr'[mem_pend_id].mem_sent
    BY <1>1, <1>2, <1>5, <1>7, MshrStep DEF OnlyMiss
  <2>2. \A j \in Mshrs \ {mem_pend_id} : ~mshr'[j].valid
    BY <1>1, <1>2, <1>5, MshrStep DEF OnlyMiss
  <2> QED BY <2>1, <2>2
\* Not answered in this cycle.
<1>10. CASE rd_valid = FALSE
  <2>1. ~Refilling(Returned)
    BY <1>10 DEF Returned, Refilling, AInv
  <2>2. /\ \A c \in Blocks : View(c)' = View(c) /\ (hit(c)' <=> hit(c))
        /\ LinesInv' /\ CleanLinesAgree' /\ Undeferred' /\ Cleared'
    BY <1>1, <2>1, StillView DEF NoAnswer
  <2>3. NoAnswer'
    BY <1>2, <1>5, <2>1 DEF PacedStep, AvalonStep, Label, Returned, Edge, Respond,
                            NoAnswer, AInv, Undeferred
  <2>4. Reading(b)'
    <3>1. CASE ext_mem_rd_req = b /\ serving = NoBlock
      BY <1>2, <1>7, <1>8, <3>1, MasterTakesRead DEF Reading
    <3>2. CASE serving = b /\ reading = TRUE
      <4>1. mem' = mem
        BY <1>2, <1>8, <3>2, MasterServes
      <4>2. CASE serving' = b /\ reading' = TRUE /\ rd_valid' = FALSE
        BY <1>7, <4>2 DEF Reading
      <4>3. CASE /\ serving' = NoBlock /\ reading' = FALSE
                 /\ rd_valid' = TRUE /\ rd_data' = mem[b]
        BY <1>7, <4>1, <4>3 DEF Reading
      <4> QED BY <1>2, <1>8, <1>10, <3>2, <4>2, <4>3, MasterServes
    <3> QED BY <1>1, <1>10, <3>1, <3>2 DEF Reading
  <2>5. Fetching(b)'
    <3>1. OnlyMiss(mem_pend_id, b)' /\ mshr'[mem_pend_id'].mem_sent
      BY <1>7, <1>9, <2>1 DEF OnlyMiss
    <3>2. mem_busy'
      BY <1>1, <1>7, <2>1
    <3> QED BY <1>1, <1>2, <1>4, <2>2, <2>3, <2>4, <3>1, <3>2 DEF Fetching, Ports
  <2>6. AInv'
    BY <1>2, <1>4, <2>2, <2>5 DEF AInv, ClientTypeOK, Phase, Operation, Reqs, Wbs
  <2>7. AvalonLS!LSNext
    BY <1>1, <1>4, <2>2, <2>3, <2>6, SilentStep
  <2> QED BY <2>6, <2>7 DEF LineStep
\* The line arrives.
<1>11. CASE rd_valid # FALSE
  <2>1. /\ ext_mem_rd_req = NoBlock /\ serving = NoBlock /\ reading = FALSE
        /\ rd_valid = TRUE /\ rd_data = mem[b]
    BY <1>1, <1>11 DEF Reading, NoRead
  <2>2. Returned = mem[b] /\ Returned \in Lines
    BY <2>1 DEF Returned, AInv, MemTypeOK
  <2>3. Refilling(Returned)
    BY <1>1, <2>2, L2DataAssumption DEF Refilling, AInv, Undeferred
  <2>4. mem' = mem /\ serving' = NoBlock /\ NoRead'
    BY <1>1, <1>2, <2>1, MasterIdle DEF Cleared, NoRead
  <2>5. /\ \A c \in Blocks : Stored(c)' = Stored(c)
        /\ OneCopyInL2' /\ LinesInTheirSet' /\ CleanLinesAgree'
        /\ defer' = NoLine /\ defer_wb' = NoWb /\ ext_mem_wr_req' = NoWb
        /\ evict' = <<>> \/ \E e \in WriteBacks : evict' = <<e>>
        /\ l2_resp' = Returned
    <3>1. LinesInv /\ CleanLinesAgree /\ defer_wb = NoWb /\ evict = <<>>
          /\ ext_mem_wr_req = NoWb /\ s1_wb = NoWb
      BY <1>1 DEF AInv, Undeferred, Cleared
    <3>2. ~hit(fill_blk) /\ Returned = mem[fill_blk]
      BY <1>1, <1>8, <2>2
    <3> QED BY <1>1, <1>2, <2>2, <2>3, <2>4, <3>1, <3>2, RefillEdge DEF AInv
  <2>6. resp_for' = b
    BY <1>8, <2>3 DEF PacedStep, AvalonStep, Label, Returned, AInv, Undeferred
  <2>7. NoFetch'
    BY <1>7, <1>9, <2>3 DEF NoFetch
  <2>8. Answering(b)'
    BY <1>2, <1>4, <2>2, <2>4, <2>5, <2>6, <2>7 DEF Answering, Ports
  <2>9. AInv'
    BY <1>2, <1>4, <2>5, <2>8
       DEF AInv, ClientTypeOK, Phase, Operation, Reqs, Wbs, LinesInv, Undeferred
  <2>10. ASSUME NEW c \in Blocks PROVE View(c)' = View(c)
    BY <1>1, <1>2, <1>4, <2>5, NoWbBlock DEF View, Cleared
  <2>11. View(b) = mem[b] /\ wb = NoWb
    BY <1>1, NoWbBlock DEF View, Stored, Beneath, Cleared
  <2>12. AvalonLS!LSNext
    BY <1>1, <1>4, <2>2, <2>5, <2>6, <2>9, <2>10, <2>11, AnswerStep
  <2> QED BY <2>9, <2>12 DEF LineStep
<1> QED BY <1>10, <1>11

\* L1 takes the answer in, and may hand a line down.
LEMMA FromAnswering ==
  ASSUME AInv, NEW b \in Blocks \ held, Answering(b),
         NEW miss \in Reqs, NEW works \in BOOLEAN, PacedStep(miss, works)
  PROVE  LineStep
<1>1. /\ unsent = {} /\ sent = {b} /\ l2_req = NoBlock /\ s1_req = NoBlock
      /\ l2_resp \in Lines /\ resp_for = b /\ NoFetch /\ NoRead
      /\ wb = NoWb /\ s1_wb = NoWb /\ ext_mem_wr_req = NoWb /\ serving = NoBlock
      /\ l2_resp # NoLine /\ ext_mem_rd_req = NoBlock
  BY L2DataAssumption DEF Answering, Ports, NoFetch
<1>2. miss = NoBlock
  BY <1>1, NoNewMiss DEF Quiet
<1>3. ClientEdge(NoBlock) /\ Memory(works)
  BY <1>2 DEF PacedStep, AvalonStep
<1>4. l2_req' = NoBlock /\ unsent' = {} /\ sent' = {}
  BY <1>1, <1>3 DEF ClientEdge, Request, NoMiss
<1>5. NoFetch' /\ NoAnswer' /\ ~Refilling(Returned)
  BY <1>1, NothingFetched
<1>6. MemTypeOK' /\ s1_req' = NoBlock /\ s1_wb' = NoWb
  BY <1>1, StepTypes
<1>7. serving' = NoBlock /\ NoRead'
  BY <1>1, <1>3, MasterIdle DEF NoRead
<1>8. /\ \A c \in Blocks : Stored(c)' = Stored(c)
      /\ LinesInv' /\ CleanLinesAgree' /\ Undeferred' /\ evict' = <<>>
  BY <1>1, <1>5, StillStep DEF Answering
<1>9. ASSUME held' \subseteq Blocks, wb' \in Wbs PROVE AInv'
  <2>1. Rest'
    BY <1>4, <1>5, <1>6, <1>7, <1>8 DEF Rest, Ports, Descending
  <2> QED BY <1>4, <1>6, <1>8, <1>9, <2>1 DEF AInv, ClientTypeOK, Phase, Reqs
<1>10. AvalonLS!Silent
  BY <1>5 DEF NoAnswer, AvalonLS!Silent
<1>11. AvalonLS!Fetched({})
  BY <1>1, <1>4 DEF AvalonLS!Fetched
<1>12. held \subseteq Blocks
  BY DEF AInv, ClientTypeOK
<1>13. CASE wb' = NoWb /\ held' \subseteq Blocks
  <2>1. \A c \in Blocks : View(c)' = View(c)
    BY <1>1, <1>6, <1>8, <1>13, NoWbBlock DEF View
  <2>2. AInv'
    BY <1>9, <1>13 DEF Wbs
  <2>3. AvalonLS!Kept
    BY <1>13, <2>1, <2>2, KeptStep
  <2> QED BY <1>10, <1>11, <2>2, <2>3 DEF LineStep, AvalonLS!LSNext
<1>14. ASSUME NEW v \in held, NEW l \in Lines,
              wb' = [block |-> v, data |-> l], held' \subseteq Blocks
       PROVE  LineStep
  <2>1. \A c \in Blocks : View(c)' = IF c = v THEN l ELSE View(c)
    BY <1>1, <1>6, <1>8, <1>14, NoWbBlock DEF View
  <2>2. AInv'
    BY <1>9, <1>12, <1>14 DEF Wbs, WriteBacks
  <2>3. v \in Blocks /\ v \notin sent \ {resp_for}
    BY <1>1, <1>12
  <2>4. AvalonLS!HandedDown(v, l)
    BY <1>14, <2>1, <2>2, <2>3, HandedDownStep
  <2> QED BY <1>10, <1>11, <2>2, <2>3, <2>4 DEF LineStep, AvalonLS!LSNext
<1>15. Keep(b) \/ \E v \in held : Drop(b, v)
  BY <1>1, <1>3 DEF ClientEdge, Receive
<1>16. CASE Keep(b)
  BY <1>12, <1>13, <1>16 DEF Keep
<1>17. ASSUME NEW v \in held, Drop(b, v) PROVE LineStep
  <2>1. held' \subseteq Blocks
    BY <1>12, <1>17 DEF Drop
  <2>2. CASE wb' = NoWb
    BY <1>13, <2>1, <2>2
  <2>3. CASE wb' \in [block : {v}, data : Contents(v)]
    <3>1. Contents(v) \subseteq Lines
      BY L2DataAssumption DEF Contents
    <3>2. PICK l \in Lines : wb' = [block |-> v, data |-> l]
      BY <2>3, <3>1
    <3> QED BY <1>14, <2>1, <3>2
  <2> QED BY <1>17, <2>2, <2>3 DEF Drop
<1> QED BY <1>15, <1>16, <1>17

-----------------------------------------------------------------------------
(* Together.                                                               *)

LEMMA InitAInv ==
  ASSUME USE_AVALON
  PROVE  AvalonInit => AInv /\ AvalonLS!LSInit
<1> SUFFICES ASSUME AvalonInit PROVE AInv /\ AvalonLS!LSInit
  OBVIOUS
<1>1. TypeOK
  BY InitType DEF AvalonInit
<1>2. OneCopyInL2 /\ LinesInTheirSet /\ CleanLinesAgree
  BY SetOfType DEF AvalonInit, L2Init, OneCopyInL2, LinesInTheirSet, CleanLinesAgree
<1>3. Rest
  BY DEF AvalonInit, L2Init, ClientInit, Rest, Ports, NoFetch, NoAnswer, NoRead,
         Descending
<1>4. AInv
  BY <1>1, <1>2, <1>3, L2DataAssumption
     DEF AvalonInit, L2Init, ClientInit, AInv, ClientTypeOK, MemTypeOK, Undeferred,
         LinesInv, Phase, Reqs, Wbs
<1>5. ASSUME NEW b \in Blocks PROVE Newest(mem, b) = ZeroLine
  <2>1. ~hit(b)
    BY SetOfType DEF AvalonInit, L2Init, hit, HitWays
  <2>2. View(b) = ZeroLine
    BY <2>1, NoWbBlock DEF AvalonInit, L2Init, ClientInit, View, Stored, Beneath
  <2> QED BY <1>4, <2>2, PhaseIsShort, NewestIsView
<1>6. AvalonLS!LSInit
  <2>1. [b \in Blocks |-> Newest(mem, b)] = [b \in Blocks |-> ZeroLine]
    BY <1>5
  <2>2. sent \ {resp_for} = {}
    BY DEF AvalonInit, ClientInit
  <2> QED BY <2>1, <2>2 DEF AvalonInit, L2Init, ClientInit, AvalonLS!LSInit
<1> QED BY <1>4, <1>6

LEMMA PhaseStep ==
  ASSUME AInv, PacedNext
  PROVE  AInv' /\ AvalonLS!LSNext
<1>1. PICK works \in BOOLEAN, miss \in Reqs : PacedStep(miss, works)
  BY DEF PacedNext, PacedStep, Reqs
<1>2. CASE Rest
  BY <1>1, <1>2, FromRest DEF LineStep
<1>3. ASSUME NEW b \in Blocks \ held, Operation(b) PROVE AInv' /\ AvalonLS!LSNext
  BY <1>1, <1>3, FromMissed, FromAsking, FromLooking, FromRecorded, FromFetching,
     FromAnswering DEF Operation, LineStep
<1> QED BY <1>2, <1>3 DEF AInv, Phase

LEMMA StepAInv == AInv /\ [PacedNext]_avalonVars => AInv' /\ [AvalonLS!LSNext]_AvalonLS!lsVars
<1> SUFFICES ASSUME AInv, UNCHANGED avalonVars
             PROVE  AInv' /\ UNCHANGED AvalonLS!lsVars
  BY PhaseStep
<1>1. AInv'
  <2>1. LinesInv' /\ CleanLinesAgree'
    BY DEF avalonVars, vars, l2Vars, memVars, AInv, LinesInv, CleanLinesAgree, TypeOK,
           OneCopyInL2, LinesInTheirSet, Beneath
  <2>2. Phase'
    BY DEF avalonVars, vars, l2Vars, clientVars, labels, memVars, AInv, Phase, Rest,
           Operation, Missed, Asking, Looking, Recorded, Fetching, Answering, Ports,
           NoFetch, NoAnswer, NoRead, Cleared, DownIdle, Descending, OnlyMiss, Reading,
           hit, HitWays
  <2> QED BY <2>1, <2>2 DEF avalonVars, vars, l2Vars, clientVars, memVars, AInv,
                            ClientTypeOK, MemTypeOK, Undeferred
<1>2. \A b \in Blocks : Newest(mem, b)' = Newest(mem, b)
  BY DEF avalonVars, vars, l2Vars, clientVars, memVars, Newest, hit, HitWays, HitLine,
         EvictedAs
<1>3. [b \in Blocks |-> Newest(mem, b)]' = [b \in Blocks |-> Newest(mem, b)]
  BY <1>2
<1>4. UNCHANGED <<wb, sent, resp_for, l2_resp>>
  BY DEF avalonVars, vars, l2Vars, clientVars, labels
<1> QED BY <1>1, <1>3, <1>4 DEF AvalonLS!lsVars

LEMMA Invariant ==
  ASSUME USE_AVALON
  PROVE  PacedSpec => []AInv
BY InitAInv, StepAInv, PTL DEF PacedSpec

-----------------------------------------------------------------------------
(***************************************************************************)
(* At the driver's pace the L2 never issues a request that the busy master *)
(* would ignore: its own flags, which come a cycle late, suffice.          *)
(***************************************************************************)
THEOREM MasterIsNeverOverrun ==
  ASSUME USE_AVALON
  PROVE  PacedSpec => []NoRequestWhileBusy
<1>1. AInv => NoRequestWhileBusy
  BY L2DataAssumption
     DEF AInv, Phase, Operation, Rest, Missed, Asking, Looking, Recorded, Fetching,
         Answering, NoFetch, Cleared, DownIdle, Descending, Reading,
         NoRequestWhileBusy, ext_mem_busy
<1> QED BY <1>1, Invariant, PTL

(***************************************************************************)
(* At the driver's pace a read the L2 waits for is on the master's port,   *)
(* being served, or answered, for the block that will be installed.        *)
(***************************************************************************)
THEOREM ReadsAreServed ==
  ASSUME USE_AVALON
  PROVE  PacedSpec => []ReadIsWithTheMaster
<1>1. AInv => ReadIsWithTheMaster
  BY L2DataAssumption
     DEF AInv, Phase, Operation, Rest, Missed, Asking, Looking, Recorded, Fetching,
         Answering, NoFetch, OnlyMiss, Reading, ReadIsWithTheMaster, ext_mem_busy,
         fill_blk
<1> QED BY <1>1, Invariant, PTL

\* At the driver's pace no block is in two ways of the L2.
THEOREM PacedBlocksAreUnique ==
  ASSUME USE_AVALON
  PROVE  PacedSpec => []OneCopyInL2
<1>1. AInv => OneCopyInL2
  BY DEF AInv, LinesInv
<1> QED BY <1>1, Invariant, PTL

(***************************************************************************)
(* At the driver's pace the L2 over the Avalon master is a store of lines: *)
(* L2_copy.sv loses no eviction in its FIFO or on the master's port, and   *)
(* answers every fetch, once, with the line last handed down.              *)
(***************************************************************************)
THEOREM AvalonIsLineStore ==
  ASSUME USE_AVALON
  PROVE  PacedSpec => AvalonImplementsLineStore
BY InitAInv, StepAInv, PTL DEF PacedSpec, AvalonImplementsLineStore, AvalonLS!LSSpec
=============================================================================
