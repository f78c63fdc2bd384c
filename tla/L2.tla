--------------------------------- MODULE L2 ---------------------------------
(***************************************************************************)
(* L2_copy.sv, and with other replacement operators L2_FIFO.sv and         *)
(* L2_lru.sv: the set-associative write-back L2 cache.  Edge(req, wb, rd,  *)
(* busy) is one posedge of clk with rst_n high: req is the block L1 asks   *)
(* for and wb the line L1 hands down in this cycle, rd the line the        *)
(* external memory returns and busy whether its master is busy (both only  *)
(* with USE_AVALON).  All sections of the always_ff block see the          *)
(* registers as they were before the edge; where two of them assign the    *)
(* same register the later one wins.                                       *)
(*                                                                         *)
(* A tag together with its set is the block itself.  A valid bit and what  *)
(* it guards are one variable that may hold a NoBlock, NoLine or NoWb.     *)
(* Registers nobody reads (mem_pend_addr, avm_rd_arrived) are left out.    *)
(* backing_mem is indexed by the low address bits: Blocks are lines that   *)
(* do not share an entry.                                                  *)
(***************************************************************************)
EXTENDS Naturals, Sequences

CONSTANTS Blocks, Sets, SetOf,       \* line addresses, sets, and their map
          Lines, ZeroLine,           \* line contents, the all-zeroes line
          WAYS, MSHR_COUNT,          \* parameters of the code
          USE_AVALON, MEM_LATENCY,
          Policies, Policy0,         \* replacement state of a set, its reset
          NoBlock, NoLine

(***************************************************************************)
(* The replacement policy: the victim in a full set, and what a hit, a     *)
(* refill and the write-back of an absent line assign to the set's state:  *)
(* a set with the new state, or {} if nothing is assigned.                 *)
(***************************************************************************)
CONSTANTS VictimOf(_),             \* state
          AfterHit(_, _),          \* state, way
          AfterRefill(_, _, _),    \* state, way, way 0 was valid
          AfterInstall(_, _, _)    \* state, way, a dirty line was evicted

Ways  == 0 .. (WAYS - 1)
Mshrs == 0 .. (MSHR_COUNT - 1)
WriteBacks == [block : Blocks, data : Lines]
NoWb == [block |-> NoBlock, data |-> ZeroLine]

ASSUME L2SetsAssumption ==
  /\ Blocks # {} /\ SetOf \in [Blocks -> Sets]
  /\ \A s \in Sets : \E b \in Blocks : SetOf[b] = s
ASSUME L2DataAssumption ==
  ZeroLine \in Lines /\ NoLine \notin Lines /\ NoBlock \notin Blocks
ASSUME L2SizeAssumption ==
  /\ WAYS \in Nat \ {0} /\ MSHR_COUNT \in Nat \ {0}
  /\ USE_AVALON \in BOOLEAN /\ MEM_LATENCY \in Nat \ {0}
ASSUME PolicyAssumption ==
  /\ Policy0 \in Policies
  /\ \A p \in Policies : VictimOf(p) \in Ways
  /\ \A p \in Policies, w \in Ways, b \in BOOLEAN :
       /\ AfterHit(p, w) \in SUBSET Policies
       /\ AfterRefill(p, w, b) \in SUBSET Policies
       /\ AfterInstall(p, w, b) \in SUBSET Policies

VARIABLES
  lines,         \* [Ways -> [Sets -> line]]: valid, dirty, tag, data arrays
  plru_bits,     \* [Sets -> Policies] (fifo_ptr in L2_FIFO.sv)
  mshr,          \* [Mshrs -> record]
  mem_busy, mem_counter, mem_pend_id,
  evict,         \* the eviction FIFO: at most two write-backs
  s1_req, s1_wb, \* stage-1 registers
  defer, defer_wb,
  l2_resp,       \* the line on the response port, or NoLine
  ext_mem_rd_req, ext_mem_wr_req,
  backing_mem    \* [Blocks -> Lines]; with USE_AVALON it is never used

l2Vars == <<lines, plru_bits, mshr, mem_busy, mem_counter, mem_pend_id,
            evict, s1_req, s1_wb, defer, defer_wb, l2_resp,
            ext_mem_rd_req, ext_mem_wr_req, backing_mem>>

AnyBlock   == CHOOSE b \in Blocks : TRUE
TagZero(s) == CHOOSE b \in Blocks : SetOf[b] = s

L2Init ==
  /\ lines = [w \in Ways |-> [s \in Sets |->
                [valid |-> FALSE, dirty |-> FALSE, tag |-> TagZero(s),
                 data |-> ZeroLine]]]
  /\ plru_bits = [s \in Sets |-> Policy0]
  /\ mshr = [i \in Mshrs |-> [valid |-> FALSE, block_addr |-> AnyBlock,
                              mem_sent |-> FALSE]]
  /\ mem_busy = FALSE /\ mem_counter = 0 /\ mem_pend_id = 0
  /\ evict = <<>>
  /\ s1_req = NoBlock /\ s1_wb = NoWb
  /\ defer = NoLine /\ defer_wb = NoWb
  /\ l2_resp = NoLine
  /\ ext_mem_rd_req = NoBlock /\ ext_mem_wr_req = NoWb
  /\ backing_mem = [b \in Blocks |-> ZeroLine]

-----------------------------------------------------------------------------
(* Lookup and the choice of a way.                                         *)

LeastOf(S) == CHOOSE i \in S : \A j \in S : i <= j

\* Fault: only way 0 is compared.
HitWays_way0(b) == {w \in {0} : lines[w][SetOf[b]].valid /\ lines[w][SetOf[b]].tag = b}
HitWays(b) == {w \in Ways : lines[w][SetOf[b]].valid /\ lines[w][SetOf[b]].tag = b}
hit(b)     == HitWays(b) # {}
HitLine(b) == lines[LeastOf(HitWays(b))][SetOf[b]].data

InvalidWays(s) == {w \in Ways : ~lines[w][s].valid}
find_install_way(s) ==
  IF InvalidWays(s) # {} THEN LeastOf(InvalidWays(s)) ELSE VictimOf(plru_bits[s])

\* The line an install in set s displaces, and whether it must be saved.
Displaced(s)  == lines[find_install_way(s)][s]
DirtyVictim(s) == Displaced(s).valid /\ Displaced(s).dirty
Evicted(s)    == [block |-> Displaced(s).tag, data |-> Displaced(s).data]

-----------------------------------------------------------------------------
(***************************************************************************)
(* Section B, the refill.  It waits while a deferred hit is answered.      *)
(***************************************************************************)
Refilling(rd) ==
  /\ defer = NoLine /\ mem_busy
  /\ IF USE_AVALON THEN rd # NoLine ELSE mem_counter = 0

fill_blk      == mshr[mem_pend_id].block_addr
fill_idx      == SetOf[fill_blk]
fill_data(rd) == IF USE_AVALON THEN rd ELSE backing_mem[fill_blk]

Refilled(rd) ==
  IF Refilling(rd)
  THEN [lines EXCEPT ![find_install_way(fill_idx)][fill_idx] =
          [valid |-> TRUE, dirty |-> FALSE, tag |-> fill_blk, data |-> fill_data(rd)]]
  ELSE lines

(***************************************************************************)
(* Sections B and C, the latched read request.  In the cycle in which a    *)
(* deferred hit is answered it is not looked at.                           *)
(***************************************************************************)
Looked   == s1_req # NoBlock /\ defer = NoLine
ReadHit  == Looked /\ hit(s1_req)
ReadMiss == Looked /\ ~hit(s1_req)

MshrOf(b)    == {i \in Mshrs : mshr[i].valid /\ mshr[i].block_addr = b}
FreeMshrs    == {i \in Mshrs : ~mshr[i].valid}
\* Fault: a miss takes every free MSHR.
AllocatesAll(i) == ReadMiss /\ MshrOf(s1_req) = {} /\ i \in FreeMshrs
Allocates(i) == /\ ReadMiss /\ MshrOf(s1_req) = {}
                /\ FreeMshrs # {} /\ i = LeastOf(FreeMshrs)

\* Fault: a hit that meets a refill is not answered later.
RespondUndeferred(rd) ==
  /\ l2_resp' = IF Refilling(rd) THEN fill_data(rd)
                ELSE IF ReadHit THEN HitLine(s1_req)
                ELSE NoLine
  /\ defer' = NoLine

Respond(rd) ==
  /\ l2_resp' = IF defer # NoLine THEN defer
                ELSE IF Refilling(rd) THEN fill_data(rd)
                ELSE IF ReadHit THEN HitLine(s1_req)
                ELSE NoLine
  /\ defer' = IF Refilling(rd) /\ ReadHit THEN HitLine(s1_req) ELSE NoLine

-----------------------------------------------------------------------------
(***************************************************************************)
(* Section E, the latched write-back, put off by one refill of its set, and *)
(* after it the write-back put off earlier, unless a new one is there.     *)
(***************************************************************************)
\* Fault: a write-back does not give way to a refill of its set.
CollidesNever(rd) == FALSE
Collides(rd) == s1_wb # NoWb /\ Refilling(rd) /\ fill_idx = SetOf[s1_wb.block]

Absorbed(rd) == IF s1_wb = NoWb THEN defer_wb
                ELSE IF Collides(rd) THEN NoWb
                ELSE s1_wb

DeferWb(rd) == defer_wb' = IF s1_wb = NoWb THEN NoWb
                           ELSE IF Collides(rd) THEN s1_wb
                           ELSE defer_wb

Absorbs(rd) == Absorbed(rd) # NoWb
AbsorbSet(rd) == SetOf[Absorbed(rd).block]
AbsorbWay(rd) == IF hit(Absorbed(rd).block) THEN LeastOf(HitWays(Absorbed(rd).block))
                 ELSE find_install_way(AbsorbSet(rd))
Installs(rd)  == Absorbs(rd) /\ ~hit(Absorbed(rd).block)

\* The arrays: the refill, then the write-back; a hit leaves valid and tag.
NextLines(rd) ==
  LET wb == Absorbed(rd)
      w  == AbsorbWay(rd)
      s  == AbsorbSet(rd)
  IN IF ~Absorbs(rd) THEN Refilled(rd)
     ELSE IF Installs(rd)
     THEN [Refilled(rd) EXCEPT ![w][s] =
             [valid |-> TRUE, dirty |-> TRUE, tag |-> wb.block, data |-> wb.data]]
     ELSE [Refilled(rd) EXCEPT ![w][s] =
             [valid |-> @.valid, dirty |-> TRUE, tag |-> @.tag, data |-> wb.data]]

\* What the sections assign to a set's replacement state.
RefillUpdate(rd, s) ==
  IF Refilling(rd) /\ fill_idx = s
  THEN AfterRefill(plru_bits[s], find_install_way(s), lines[0][s].valid) ELSE {}
ReadUpdate(rd, s) ==
  IF ReadHit /\ ~Refilling(rd) /\ SetOf[s1_req] = s
  THEN AfterHit(plru_bits[s], LeastOf(HitWays(s1_req))) ELSE {}
AbsorbUpdate(rd, s) ==
  IF ~Absorbs(rd) \/ AbsorbSet(rd) # s THEN {}
  ELSE IF Installs(rd)
  THEN AfterInstall(plru_bits[s], AbsorbWay(rd), DirtyVictim(s))
  ELSE AfterHit(plru_bits[s], AbsorbWay(rd))

NextPolicy(rd, s) ==
  LET earlier == RefillUpdate(rd, s) \cup ReadUpdate(rd, s)
      later   == AbsorbUpdate(rd, s)
  IN IF later # {} THEN CHOOSE p \in later : TRUE
     ELSE IF earlier # {} THEN CHOOSE p \in earlier : TRUE
     ELSE plru_bits[s]

-----------------------------------------------------------------------------
(***************************************************************************)
(* Evictions.  In simulation they are stored in backing_mem at once.  With *)
(* USE_AVALON they are pushed into the two-entry FIFO; of two pushes, and  *)
(* of a push into a full FIFO, the later takes the same entry; a push on   *)
(* the edge of a drain is undone by the drain's shift.                     *)
(***************************************************************************)
RefillEvicts(rd) == Refilling(rd) /\ DirtyVictim(fill_idx)
AbsorbEvicts(rd) == Installs(rd) /\ DirtyVictim(AbsorbSet(rd))

\* Fault: the victim of a refill is not saved.
SavedAbsorbed(rd) ==
  IF AbsorbEvicts(rd)
  THEN [backing_mem EXCEPT ![Evicted(AbsorbSet(rd)).block] = Evicted(AbsorbSet(rd)).data]
  ELSE backing_mem

Saved(rd) ==
  LET first == IF RefillEvicts(rd)
               THEN [backing_mem EXCEPT ![Evicted(fill_idx).block] = Evicted(fill_idx).data]
               ELSE backing_mem
  IN IF AbsorbEvicts(rd)
     THEN [first EXCEPT ![Evicted(AbsorbSet(rd)).block] = Evicted(AbsorbSet(rd)).data]
     ELSE first

\* Fault: evictions are drained into a busy master.
DrainingBlind(busy) == USE_AVALON /\ evict # <<>>
Draining(busy) == USE_AVALON /\ evict # <<>> /\ ~busy

Push(rd) ==
  LET entry == Evicted(IF AbsorbEvicts(rd) THEN AbsorbSet(rd) ELSE fill_idx)
  IN IF evict = <<>> THEN <<entry>> ELSE <<Head(evict), entry>>

NextEvict(rd, busy) ==
  IF Draining(busy) THEN Tail(evict)
  ELSE IF USE_AVALON /\ (RefillEvicts(rd) \/ AbsorbEvicts(rd)) THEN Push(rd)
  ELSE evict

(***************************************************************************)
(* Section F: drain an eviction, else send the lowest MSHR not yet sent.   *)
(* Section D: the latency of the simulated memory.                         *)
(***************************************************************************)
Unsent   == {i \in Mshrs : mshr[i].valid /\ ~mshr[i].mem_sent}
CanIssue(busy) == ~mem_busy /\ (USE_AVALON => ~busy /\ evict = <<>>)
Issuing(busy, i) == CanIssue(busy) /\ Unsent # {} /\ i = LeastOf(Unsent)
Issues(busy)     == CanIssue(busy) /\ Unsent # {}

MEM_LAT_INIT == MEM_LATENCY - 1

\* Fault: a refill does not release the memory pipeline.
MemBusyKept(rd, busy) == Issues(busy) \/ mem_busy
MemBusy(rd, busy)     == Issues(busy) \/ (mem_busy /\ ~Refilling(rd))

Issue(rd, busy) ==
  /\ mem_busy' = MemBusy(rd, busy)
  /\ mem_pend_id' = IF Issues(busy) THEN LeastOf(Unsent) ELSE mem_pend_id
  /\ mem_counter' = IF USE_AVALON THEN mem_counter
                    ELSE IF Issues(busy) THEN MEM_LAT_INIT
                    ELSE IF mem_busy /\ mem_counter > 0 THEN mem_counter - 1
                    ELSE mem_counter
  /\ ext_mem_rd_req' = IF USE_AVALON /\ Issues(busy)
                       THEN mshr[LeastOf(Unsent)].block_addr ELSE NoBlock
  /\ ext_mem_wr_req' = IF Draining(busy) THEN Head(evict) ELSE NoWb

\* Fault: an MSHR that is taken again still counts as sent.
NextMshrStaysSent(rd, busy, i) ==
  [valid |-> Allocates(i) \/ (mshr[i].valid /\ ~(Refilling(rd) /\ i = mem_pend_id)),
   block_addr |-> IF Allocates(i) THEN s1_req ELSE mshr[i].block_addr,
   mem_sent |-> mshr[i].mem_sent \/ Issuing(busy, i)]

NextMshr(rd, busy, i) ==
  IF Allocates(i)
  THEN [valid |-> TRUE, block_addr |-> s1_req, mem_sent |-> FALSE]
  ELSE [valid |-> mshr[i].valid /\ ~(Refilling(rd) /\ i = mem_pend_id),
        block_addr |-> mshr[i].block_addr,
        mem_sent |-> mshr[i].mem_sent \/ Issuing(busy, i)]

Edge(req, wb, rd, busy) ==
  /\ s1_req' = req /\ s1_wb' = wb
  /\ Respond(rd)
  /\ lines' = NextLines(rd)
  /\ plru_bits' = [s \in Sets |-> NextPolicy(rd, s)]
  /\ mshr' = [i \in Mshrs |-> NextMshr(rd, busy, i)]
  /\ DeferWb(rd)
  /\ evict' = NextEvict(rd, busy)
  /\ backing_mem' = IF USE_AVALON THEN backing_mem ELSE Saved(rd)
  /\ Issue(rd, busy)

\* Any request, write-back and answer of the memory, in any cycle.
L2Next ==
  \E req \in Blocks \cup {NoBlock}, wb \in WriteBacks \cup {NoWb},
     rd \in Lines \cup {NoLine}, busy \in BOOLEAN : Edge(req, wb, rd, busy)

L2Spec == L2Init /\ [][L2Next]_l2Vars
-----------------------------------------------------------------------------
(* Properties.                                                             *)

LineRec == [valid : BOOLEAN, dirty : BOOLEAN, tag : Blocks, data : Lines]
MshrRec == [valid : BOOLEAN, block_addr : Blocks, mem_sent : BOOLEAN]

\* Arrays, miss registers and ports keep their types; the two-entry FIFO
\* never holds a third eviction.
TypeOK ==
  /\ lines \in [Ways -> [Sets -> LineRec]]
  /\ plru_bits \in [Sets -> Policies]
  /\ mshr \in [Mshrs -> MshrRec]
  /\ mem_busy \in BOOLEAN /\ mem_counter \in 0 .. (MEM_LATENCY - 1)
  /\ mem_pend_id \in Mshrs
  /\ evict \in Seq(WriteBacks) /\ Len(evict) <= 2
  /\ s1_req \in Blocks \cup {NoBlock} /\ s1_wb \in WriteBacks \cup {NoWb}
  /\ defer \in Lines \cup {NoLine} /\ defer_wb \in WriteBacks \cup {NoWb}
  /\ l2_resp \in Lines \cup {NoLine}
  /\ ext_mem_rd_req \in Blocks \cup {NoBlock}
  /\ ext_mem_wr_req \in WriteBacks \cup {NoWb}
  /\ backing_mem \in [Blocks -> Lines]

\* No two MSHRs fetch the same block, although the check for duplicates and
\* the refill that frees an MSHR read the registers on the same edge.
MshrsAreDistinct ==
  \A i, j \in Mshrs :
    mshr[i].valid /\ mshr[j].valid /\ mshr[i].block_addr = mshr[j].block_addr => i = j

(***************************************************************************)
(* The single outstanding memory read and the MSHRs agree: while mem_busy  *)
(* is up it is exactly the MSHR mem_pend_id that has been sent, so a line  *)
(* that returns without an address is installed under the right tag and    *)
(* frees the right MSHR; while it is down no MSHR waits for an answer.     *)
(***************************************************************************)
FetchIsTracked ==
  /\ \A i \in Mshrs : mshr[i].valid =>
       (mshr[i].mem_sent <=> mem_busy /\ i = mem_pend_id)
  /\ mem_busy => mshr[mem_pend_id].valid

(***************************************************************************)
(* A block is in one way of its set at most: a refill and a write-back of  *)
(* the same block never both install it, although each looks it up on an   *)
(* edge of its own.                                                        *)
(***************************************************************************)
OneCopyInL2 ==
  \A s \in Sets, v, w \in Ways :
    lines[v][s].valid /\ lines[w][s].valid /\ lines[v][s].tag = lines[w][s].tag
      => v = w

\* The line just installed in a set is not the next one to be thrown out.
InstalledIsNotNextVictim ==
  [][\A w \in Ways, s \in Sets :
       lines'[w][s].tag # lines[w][s].tag => VictimOf(plru_bits'[s]) # w]_l2Vars
=============================================================================
