------------------------------ MODULE L2Avalon ------------------------------
(***************************************************************************)
(* The L2 with USE_AVALON over the memory that the Avalon master           *)
(* implements: True_TOP.sv, with L1 as in L2Client.  The master looks at   *)
(* the request ports only while it is idle, and shows that it is busy one  *)
(* cycle after the request it took was on the port.                        *)
(***************************************************************************)
EXTENDS L2Client

VARIABLES mem, serving, reading, rd_valid, rd_data, wr_done

LM == INSTANCE LineMemory

memVars   == <<mem, serving, reading, rd_valid, rd_data, wr_done>>
avalonVars == <<vars, memVars>>

ext_mem_busy == serving # NoBlock

AvalonInit ==
  /\ L2Init /\ ClientInit
  /\ mem = [b \in Blocks |-> ZeroLine]
  /\ serving = NoBlock /\ reading = FALSE
  /\ rd_valid = FALSE /\ rd_data = ZeroLine /\ wr_done = FALSE

\* Idle, the master takes a read before a write; busy, it ignores both.
TakeRead  == ext_mem_rd_req # NoBlock /\ LM!AcceptRead(ext_mem_rd_req)
TakeWrite == /\ ext_mem_rd_req = NoBlock /\ ext_mem_wr_req # NoWb
             /\ LM!AcceptWrite(ext_mem_wr_req.block, ext_mem_wr_req.data)
TakeNone  == /\ ext_mem_rd_req = NoBlock /\ ext_mem_wr_req = NoWb
             /\ LM!StayIdle
Finish    == LM!FinishRead \/ LM!FinishWrite
Work      == ext_mem_busy /\ UNCHANGED memVars

\* One edge of all parts.
AvalonStep(miss) ==
  LET rd == IF rd_valid THEN rd_data ELSE NoLine
  IN ClientEdge(miss) /\ Label(rd) /\ Edge(l2_req, wb, rd, ext_mem_busy)

Memory(works) == IF works THEN Work ELSE TakeRead \/ TakeWrite \/ TakeNone \/ Finish

(***************************************************************************)
(* The pace of the driver: the smoke test of mem_test.c waits at least a   *)
(* millisecond after each operation, time for every eviction it caused to  *)
(* reach the SDRAM.                                                        *)
(***************************************************************************)
Quiet ==
  /\ unsent = {} /\ sent = {} /\ wb = NoWb /\ s1_wb = NoWb /\ defer_wb = NoWb
  /\ l2_resp = NoLine
  /\ evict = <<>> /\ ext_mem_wr_req = NoWb /\ ~ext_mem_busy

PacedNext ==
  \E works \in BOOLEAN, miss \in (IF Quiet THEN Blocks ELSE {}) \cup {NoBlock} :
    AvalonStep(miss) /\ Memory(works)

\* The clock runs and the memory finishes what it serves.
PacedSpec ==
  /\ AvalonInit /\ [][PacedNext]_avalonVars
  /\ WF_avalonVars(\E miss \in (IF Quiet THEN Blocks ELSE {}) \cup {NoBlock} :
                     AvalonStep(miss) /\ Memory(FALSE))

\* A requester that waits for its answer and nothing else.
PromptNext ==
  \E works \in BOOLEAN, miss \in Blocks \cup {NoBlock} :
    AvalonStep(miss) /\ Memory(works)

PromptSpec == AvalonInit /\ [][PromptNext]_avalonVars
-----------------------------------------------------------------------------
(* Properties.                                                             *)

(***************************************************************************)
(* Line 51 of avalon_mem_master.sv: "Busy flag (L2 should not issue new    *)
(* req while busy)".  The master ignores what is issued while it is.       *)
(***************************************************************************)
NoRequestWhileBusy ==
  ext_mem_busy => ext_mem_rd_req = NoBlock /\ ext_mem_wr_req = NoWb

(***************************************************************************)
(* While the L2 waits for a line, its read is on the master's port, being  *)
(* served, or answered in this cycle, for the block the L2 will install:   *)
(* a read that were nowhere would be waited for for ever.                  *)
(***************************************************************************)
ReadIsWithTheMaster ==
  mem_busy => \/ ext_mem_rd_req = fill_blk
              \/ ext_mem_busy /\ reading /\ serving = fill_blk
              \/ rd_valid /\ rd_data = mem[fill_blk]

AvalonLS == INSTANCE LineStore
              WITH store   <- [b \in Blocks |-> Newest(mem, b)],
                   down    <- wb,
                   pending <- sent \ {resp_for},
                   for     <- resp_for,
                   line    <- l2_resp

\* At the driver's pace no eviction is lost on its way through the FIFO and
\* the master, and a line is never fetched before its eviction has landed.
AvalonImplementsLineStore == AvalonLS!LSSpec

(***************************************************************************)
(* Lines 99-100 of L2_copy.sv: the "Two-entry FIFO prevents data loss when *)
(* a refill eviction and a writeback eviction both need to write to DDR3   *)
(* in the same cycle": then both are in the FIFO afterwards.               *)
(***************************************************************************)
BothEvictionsAreKept ==
  [][LET rd == IF rd_valid THEN rd_data ELSE NoLine
     IN RefillEvicts(rd) /\ AbsorbEvicts(rd)
          => \A s \in {fill_idx, AbsorbSet(rd)} :
               \E k \in 1 .. Len(evict') : evict'[k] = Evicted(s)]_avalonVars
=============================================================================
