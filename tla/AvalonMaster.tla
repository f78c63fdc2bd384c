---------------------------- MODULE AvalonMaster ----------------------------
(***************************************************************************)
(* avalon_mem_master.sv: the state machine that moves one cache line at a  *)
(* time between the L2 cache and the HPS DDR3 as NBeats single-beat        *)
(* Avalon-MM transfers, and (external) the bridge it drives.               *)
(*                                                                         *)
(* Edge(...) is one posedge of clk with rst_n high.  Every register is     *)
(* updated from the values before the edge, as non-blocking assignments    *)
(* are.  A byte address is modelled by the pair <<block, beat>>: beat_addr *)
(* is the block shifted by six plus eight times the beat, and beat < 8.    *)
(* avm_byteenable is all ones whenever a strobe is up and is left out.     *)
(***************************************************************************)
EXTENDS Naturals

CONSTANTS Blocks,            \* line addresses (mem_rd_addr, mem_wr_addr)
          Words,             \* contents of one beat
          ZeroWord,          \* the all-zeroes word
          NBeats,            \* beats of a line (8 in the code)
          WR_SETTLE_CYCLES,  \* localparam of the code (8)
          CommitDelay,       \* external: cycles the fabric may take to
                             \* commit a write it has accepted
          NoBlock,           \* not a block
          NoWord             \* not a word: the slave has nothing to return

ASSUME WordsAssumption  == ZeroWord \in Words /\ NoWord \notin Words
ASSUME BlocksAssumption == Blocks # {} /\ NoBlock \notin Blocks
ASSUME NBeatsAssumption == NBeats \in Nat \ {0}
(***************************************************************************)
(* The settle counter is there "so the downstream AXI fabric has time to   *)
(* commit the writes to SDRAM": it is long enough when the fabric needs    *)
(* at most one cycle more than the counter counts.                         *)
(***************************************************************************)
ASSUME SettleAssumption ==
  /\ WR_SETTLE_CYCLES \in Nat
  /\ CommitDelay \in Nat \ {0}
  /\ CommitDelay <= WR_SETTLE_CYCLES + 1

Beats  == 0 .. (NBeats - 1)
Lines  == [Beats -> Words]
Cells  == Blocks \X Beats
States == {"S_IDLE", "S_RD_ISSUE", "S_RD_WAIT", "S_RD_DONE",
           "S_WR_ISSUE", "S_WR_DONE"}

VARIABLES state, beat_cnt, req_block_addr, req_wr_data, rd_line,
          mem_rd_valid, mem_rd_data, mem_wr_done,
          avm_address, avm_read, avm_write, avm_writedata, wr_settle_cnt

\* External: the bridge and the SDRAM behind it.
VARIABLES ddr,       \* [Cells -> Words]  what a read of the SDRAM returns
          posted,    \* [Cells -> Words]  the newest word accepted for a cell
          left,      \* [Cells -> 0..CommitDelay]  cycles within which that
                     \* word must reach the SDRAM, 0 when it has
          answer     \* the word read and not yet returned, or NoWord

masterVars == <<state, beat_cnt, req_block_addr, req_wr_data, rd_line,
                mem_rd_valid, mem_rd_data, mem_wr_done,
                avm_address, avm_read, avm_write, avm_writedata,
                wr_settle_cnt>>
bridgeVars == <<ddr, posted, left, answer>>
vars       == <<masterVars, bridgeVars>>

ZeroLine  == [i \in Beats |-> ZeroWord]
mem_busy  == state # "S_IDLE"
beat_addr == <<req_block_addr, beat_cnt>>
wr_word   == req_wr_data[beat_cnt]
LastBeat  == beat_cnt = NBeats - 1

-----------------------------------------------------------------------------
MasterInit ==
  /\ state = "S_IDLE" /\ beat_cnt = 0
  /\ req_block_addr \in Blocks   \* reset value 0, never used before a request
  /\ req_wr_data = ZeroLine /\ rd_line = ZeroLine
  /\ mem_rd_valid = FALSE /\ mem_rd_data = ZeroLine /\ mem_wr_done = FALSE
  /\ avm_address = <<req_block_addr, 0>>
  /\ avm_read = FALSE /\ avm_write = FALSE
  /\ avm_writedata = ZeroWord /\ wr_settle_cnt = 0

\* The read pulse and its data, and the write pulse, when nothing is raised.
NoPulse == mem_rd_valid' = FALSE /\ mem_wr_done' = FALSE /\ UNCHANGED mem_rd_data

NoStrobe == avm_read' = FALSE /\ avm_write' = FALSE /\ UNCHANGED <<avm_address, avm_writedata>>

\* S_IDLE: a read request has priority; a write request of the same cycle
\* is not remembered.
IdleRead(rdReq, rdAddr) ==
  /\ state = "S_IDLE" /\ rdReq
  /\ req_block_addr' = rdAddr /\ rd_line' = ZeroLine
  /\ state' = "S_RD_ISSUE" /\ beat_cnt' = 0
  /\ NoPulse /\ NoStrobe
  /\ UNCHANGED <<req_wr_data, wr_settle_cnt>>

IdleWrite(rdReq, wrReq, wrAddr, wrData) ==
  /\ state = "S_IDLE" /\ ~rdReq /\ wrReq
  /\ req_block_addr' = wrAddr /\ req_wr_data' = wrData
  /\ state' = "S_WR_ISSUE" /\ beat_cnt' = 0
  /\ NoPulse /\ NoStrobe
  /\ UNCHANGED <<rd_line, wr_settle_cnt>>

IdleWait(rdReq, wrReq) ==
  /\ state = "S_IDLE" /\ ~rdReq /\ ~wrReq
  /\ beat_cnt' = 0
  /\ NoPulse /\ NoStrobe
  /\ UNCHANGED <<state, req_block_addr, req_wr_data, rd_line, wr_settle_cnt>>

\* Fault: the read counts as accepted before its strobe is up.
RdIssueUnstrobed(waitrequest) ==
  /\ state = "S_RD_ISSUE"
  /\ avm_address' = beat_addr
  /\ avm_read' = waitrequest
  /\ state' = IF waitrequest THEN state ELSE "S_RD_WAIT"
  /\ avm_write' = FALSE /\ NoPulse
  /\ UNCHANGED <<beat_cnt, req_block_addr, req_wr_data, rd_line,
                 avm_writedata, wr_settle_cnt>>

\* S_RD_ISSUE: drive the read; once it is up and the slave does not hold it
\* off, drop it and wait for the data.
RdIssue(waitrequest) ==
  /\ state = "S_RD_ISSUE"
  /\ avm_address' = beat_addr
  /\ LET accepted == avm_read /\ ~waitrequest
     IN /\ avm_read' = ~accepted
        /\ state' = IF accepted THEN "S_RD_WAIT" ELSE state
  /\ avm_write' = FALSE /\ NoPulse
  /\ UNCHANGED <<beat_cnt, req_block_addr, req_wr_data, rd_line,
                 avm_writedata, wr_settle_cnt>>

\* Fault: the beat counter is advanced past the last beat.
RdWaitOverrun(readdatavalid, readdata) ==
  /\ state = "S_RD_WAIT"
  /\ IF readdatavalid
     THEN /\ rd_line' = [rd_line EXCEPT ![beat_cnt] = readdata]
          /\ state' = IF LastBeat THEN "S_RD_DONE" ELSE "S_RD_ISSUE"
          /\ beat_cnt' = beat_cnt + 1
     ELSE UNCHANGED <<rd_line, state, beat_cnt>>
  /\ NoPulse /\ NoStrobe
  /\ UNCHANGED <<req_block_addr, req_wr_data, wr_settle_cnt>>

\* S_RD_WAIT: store the returned word; go on with the next beat or finish.
RdWait(readdatavalid, readdata) ==
  /\ state = "S_RD_WAIT"
  /\ IF readdatavalid
     THEN /\ rd_line' = [rd_line EXCEPT ![beat_cnt] = readdata]
          /\ state' = IF LastBeat THEN "S_RD_DONE" ELSE "S_RD_ISSUE"
          /\ beat_cnt' = IF LastBeat THEN beat_cnt ELSE beat_cnt + 1
     ELSE UNCHANGED <<rd_line, state, beat_cnt>>
  /\ NoPulse /\ NoStrobe
  /\ UNCHANGED <<req_block_addr, req_wr_data, wr_settle_cnt>>

RdDone ==
  /\ state = "S_RD_DONE" /\ state' = "S_IDLE"
  /\ mem_rd_valid' = TRUE /\ mem_rd_data' = rd_line /\ mem_wr_done' = FALSE
  /\ NoStrobe
  /\ UNCHANGED <<beat_cnt, req_block_addr, req_wr_data, rd_line, wr_settle_cnt>>

\* Faults: no settle period; the waitrequest polarity the wrong way round.
WrIssueFaulty(waitrequest, settle) ==
  /\ state = "S_WR_ISSUE"
  /\ avm_address' = beat_addr /\ avm_writedata' = wr_word
  /\ LET accepted == avm_write /\ ~waitrequest
     IN /\ avm_write' = ~accepted
        /\ state' = IF accepted /\ LastBeat THEN "S_WR_DONE" ELSE state
        /\ beat_cnt' = IF accepted /\ ~LastBeat THEN beat_cnt + 1 ELSE beat_cnt
        /\ wr_settle_cnt' = IF accepted /\ LastBeat THEN settle ELSE wr_settle_cnt
  /\ avm_read' = FALSE /\ NoPulse
  /\ UNCHANGED <<req_block_addr, req_wr_data, rd_line>>
WrIssueUnsettled(waitrequest) == WrIssueFaulty(waitrequest, 0)
WrIssueInverted(waitrequest) == WrIssueFaulty(~waitrequest, WR_SETTLE_CYCLES)

\* S_WR_ISSUE: the same handshake once per beat, then the settle period.
WrIssue(waitrequest) ==
  /\ state = "S_WR_ISSUE"
  /\ avm_address' = beat_addr /\ avm_writedata' = wr_word
  /\ LET accepted == avm_write /\ ~waitrequest
     IN /\ avm_write' = ~accepted
        /\ state' = IF accepted /\ LastBeat THEN "S_WR_DONE" ELSE state
        /\ beat_cnt' = IF accepted /\ ~LastBeat THEN beat_cnt + 1 ELSE beat_cnt
        /\ wr_settle_cnt' = IF accepted /\ LastBeat
                            THEN WR_SETTLE_CYCLES ELSE wr_settle_cnt
  /\ avm_read' = FALSE /\ NoPulse
  /\ UNCHANGED <<req_block_addr, req_wr_data, rd_line>>

WrSettle ==
  /\ state = "S_WR_DONE" /\ wr_settle_cnt > 0
  /\ wr_settle_cnt' = wr_settle_cnt - 1
  /\ NoPulse /\ NoStrobe
  /\ UNCHANGED <<state, beat_cnt, req_block_addr, req_wr_data, rd_line>>

WrDone ==
  /\ state = "S_WR_DONE" /\ wr_settle_cnt = 0
  /\ mem_wr_done' = TRUE /\ mem_rd_valid' = FALSE /\ state' = "S_IDLE"
  /\ NoStrobe
  /\ UNCHANGED <<beat_cnt, req_block_addr, req_wr_data, rd_line,
                 mem_rd_data, wr_settle_cnt>>

MasterEdge(rdReq, rdAddr, wrReq, wrAddr, wrData, waitrequest, rdv, rdata) ==
  \/ IdleRead(rdReq, rdAddr)
  \/ IdleWrite(rdReq, wrReq, wrAddr, wrData)
  \/ IdleWait(rdReq, wrReq)
  \/ RdIssue(waitrequest)
  \/ RdWait(rdv, rdata)
  \/ RdDone
  \/ WrIssue(waitrequest)
  \/ WrSettle
  \/ WrDone

-----------------------------------------------------------------------------
(***************************************************************************)
(* External: the bridge.  A strobe it does not hold off is taken.  A read  *)
(* is answered from the SDRAM as it was when the read was taken; a write   *)
(* reaches the SDRAM after at most CommitDelay cycles, commits being the   *)
(* cells whose write does so on this edge.                                 *)
(***************************************************************************)
BridgeInit ==
  /\ ddr \in [Cells -> Words]
  /\ posted = ddr
  /\ left = [c \in Cells |-> 0]
  /\ answer = NoWord

Due == {c \in Cells : left[c] = 1}      \* must be committed on this edge
InFlight == {c \in Cells : left[c] > 0}

BridgeEdge(waitrequest, readdatavalid, commits) ==
  LET wr == avm_write /\ ~waitrequest
      rd == avm_read  /\ ~waitrequest
  IN /\ Due \subseteq commits /\ commits \subseteq InFlight
     /\ readdatavalid => answer # NoWord
     /\ ddr' = [c \in Cells |-> IF c \in commits THEN posted[c] ELSE ddr[c]]
     /\ posted' = IF wr THEN [posted EXCEPT ![avm_address] = avm_writedata]
                  ELSE posted
     /\ left' = [c \in Cells |->
                   IF wr /\ c = avm_address THEN CommitDelay
                   ELSE IF c \in commits \/ left[c] = 0 THEN 0
                   ELSE left[c] - 1]
     /\ answer' = IF rd THEN ddr[avm_address]
                  ELSE IF readdatavalid THEN NoWord ELSE answer

-----------------------------------------------------------------------------
Init == MasterInit /\ BridgeInit

\* answer is on avm_readdata, which is looked at only with readdatavalid.
Edge(rdReq, rdAddr, wrReq, wrAddr, wrData, waitrequest, rdv, commits) ==
  /\ MasterEdge(rdReq, rdAddr, wrReq, wrAddr, wrData,
                waitrequest, rdv, answer)
  /\ BridgeEdge(waitrequest, rdv, commits)

\* The L2 side may raise either request, or both, in any cycle.
Next ==
  \E rdReq, wrReq, waitrequest, rdv \in BOOLEAN,
     addr \in Blocks, wrData \in Lines, commits \in SUBSET InFlight :
       Edge(rdReq, addr, wrReq, addr, wrData, waitrequest, rdv, commits)

\* An edge on which the slave neither stalls nor withholds an answer.
ObligingEdge ==
  \E rdReq, wrReq \in BOOLEAN, addr \in Blocks, wrData \in Lines,
     commits \in SUBSET InFlight :
       Edge(rdReq, addr, wrReq, addr, wrData, FALSE, answer # NoWord, commits)

Spec == Init /\ [][Next]_vars

FairSpec == Spec /\ WF_vars(ObligingEdge)

-----------------------------------------------------------------------------
(* Properties.                                                             *)

Reading == state \in {"S_RD_ISSUE", "S_RD_WAIT", "S_RD_DONE"}
Writing == state \in {"S_WR_ISSUE", "S_WR_DONE"}

MasterTypeOK ==
  /\ state \in States /\ beat_cnt \in Beats
  /\ req_block_addr \in Blocks /\ req_wr_data \in Lines /\ rd_line \in Lines
  /\ mem_rd_valid \in BOOLEAN /\ mem_rd_data \in Lines /\ mem_wr_done \in BOOLEAN
  /\ avm_address \in Cells /\ avm_read \in BOOLEAN /\ avm_write \in BOOLEAN
  /\ avm_writedata \in Words /\ wr_settle_cnt \in 0 .. WR_SETTLE_CYCLES

BridgeTypeOK ==
  /\ ddr \in [Cells -> Words] /\ posted \in [Cells -> Words]
  /\ left \in [Cells -> 0 .. CommitDelay]
  /\ answer \in Words \cup {NoWord}

\* Every register (widths of lines 77-82, 104) and every part of the bridge
\* holds a value of its type; beat_cnt in particular never wraps.
TypeOK == MasterTypeOK /\ BridgeTypeOK

(***************************************************************************)
(* A word on its way back to the master is the newest word ever accepted   *)
(* for the cell being read: the settle period (lines 98-103, 200-207) rules *)
(* out a read that overtakes a posted write.                               *)
(***************************************************************************)
ReadsAreFresh == answer # NoWord => answer = posted[beat_addr]

(***************************************************************************)
(* When mem_busy is low every write the master has accepted, hence every   *)
(* one it has reported with mem_wr_done, is in the SDRAM.                  *)
(***************************************************************************)
WritesAreDurable == ~mem_busy => ddr = posted

(***************************************************************************)
(* The line memory the master and the bridge implement: a write counts     *)
(* from the edge on which its request is taken.                            *)
(***************************************************************************)
LineMem == [b \in Blocks |->
              IF Writing /\ b = req_block_addr THEN req_wr_data
              ELSE [i \in Beats |-> ddr[<<b, i>>]]]

LM == INSTANCE LineMemory
        WITH mem      <- LineMem,
             serving  <- IF mem_busy THEN req_block_addr ELSE NoBlock,
             reading  <- Reading,
             rd_valid <- mem_rd_valid,
             rd_data  <- mem_rd_data,
             wr_done  <- mem_wr_done

(***************************************************************************)
(* Beat by beat the master behaves as a memory of whole lines: no beat of  *)
(* a line is skipped, repeated, taken from another line or returned stale, *)
(* whatever the stalls, the latencies and the requests made while busy.    *)
(***************************************************************************)
ImplementsLineMemory == LM!LMSpec

\* A read or a write that has been taken is answered by its pulse, if the
\* slave keeps accepting and answering.
ReadCompletes  == state = "S_RD_ISSUE" ~> mem_rd_valid
WriteCompletes == state = "S_WR_ISSUE" ~> mem_wr_done
=============================================================================
