------------------------- MODULE AvalonMasterProofs -------------------------
(***************************************************************************)
(* Proofs about avalon_mem_master for every number of beats, every settle  *)
(* period and every fabric delay the settle period covers.                 *)
(***************************************************************************)
EXTENDS AvalonMaster, TLAPS

\* A strobe belongs to the beat the master is on.
StrobeInv ==
  /\ avm_read  => state = "S_RD_ISSUE" /\ avm_address = beat_addr
  /\ avm_write => /\ state = "S_WR_ISSUE" /\ avm_address = beat_addr
                  /\ avm_writedata = wr_word

\* A pulse is raised only on the edge that returns to S_IDLE.
PulseInv == mem_busy => ~mem_rd_valid /\ ~mem_wr_done

\* An answer is outstanding exactly while the master waits for it, and it is
\* the answer to the beat the master is on.
AnswerInv ==
  /\ (answer # NoWord) <=> (state = "S_RD_WAIT")
  /\ answer # NoWord => answer = ddr[beat_addr]

\* The beats read so far are those of the line asked for.
ReadInv ==
  Reading => \A i \in Beats :
               (i < beat_cnt \/ state = "S_RD_DONE")
                  => rd_line[i] = ddr[<<req_block_addr, i>>]

\* The beats written so far have been accepted with the words of the line.
WriteInv ==
  Writing => \A i \in Beats :
               (i < beat_cnt \/ state = "S_WR_DONE")
                  => posted[<<req_block_addr, i>>] = req_wr_data[i]

\* Only beats of the line being written are in flight, and after the last
\* beat they are committed before the settle period ends.
FlightInv ==
  \A c \in Cells :
    /\ left[c] = 0 => posted[c] = ddr[c]
    /\ left[c] > 0 => Writing /\ c[1] = req_block_addr
    /\ state = "S_WR_DONE" => left[c] <= wr_settle_cnt + 1

IInv == /\ TypeOK /\ PulseInv /\ StrobeInv /\ AnswerInv
        /\ ReadInv /\ WriteInv /\ FlightInv

USE DEF Beats, Lines, Cells, States, ZeroLine, mem_busy, beat_addr, wr_word,
        LastBeat, Reading, Writing
USE WordsAssumption, BlocksAssumption, NBeatsAssumption, SettleAssumption

\* The registers of the reset state satisfy the invariant.
LEMMA InitIInv == Init => IInv
<1> SUFFICES ASSUME Init PROVE IInv
  OBVIOUS
<1> USE DEF Init, MasterInit, BridgeInit
<1>1. TypeOK
  <2>1. req_wr_data \in Lines /\ rd_line \in Lines /\ mem_rd_data \in Lines
    OBVIOUS
  <2>2. /\ avm_address \in Cells /\ beat_cnt \in Beats /\ state \in States
        /\ wr_settle_cnt \in 0 .. WR_SETTLE_CYCLES /\ req_block_addr \in Blocks
    OBVIOUS
  <2>3. MasterTypeOK
    <3> HIDE DEF Beats, Lines, Cells, States
    <3> QED BY <2>1, <2>2 DEF MasterTypeOK
  <2>4. BridgeTypeOK
    BY DEF BridgeTypeOK
  <2> QED BY <2>3, <2>4 DEF TypeOK
<1>2. PulseInv /\ StrobeInv /\ AnswerInv /\ ReadInv /\ WriteInv
  BY DEF PulseInv, StrobeInv, AnswerInv, ReadInv, WriteInv
<1>3. FlightInv
  BY DEF FlightInv
<1> QED BY <1>1, <1>2, <1>3 DEF IInv

\* What the bridge does in one edge when no write is being made: nothing that
\* a read could notice.
LEMMA BridgeHolds ==
  ASSUME IInv, ~Writing,
         NEW waitrequest \in BOOLEAN, NEW rdv \in BOOLEAN, NEW commits,
         BridgeEdge(waitrequest, rdv, commits)
  PROVE  ddr' = ddr /\ posted' = posted /\ left' = left
<1>1. ~avm_write
  BY DEF IInv, StrobeInv
<1>2. \A c \in Cells : left[c] = 0
  BY DEF IInv, TypeOK, BridgeTypeOK, FlightInv
<1>3. commits = {}
  BY <1>2 DEF BridgeEdge, InFlight
<1>4. posted' = posted
  BY <1>1 DEF BridgeEdge
<1>5. ddr' = ddr
  BY <1>3 DEF BridgeEdge, IInv, TypeOK, MasterTypeOK, BridgeTypeOK
<1>6. left' = left
  BY <1>1, <1>2, <1>3 DEF BridgeEdge, IInv, TypeOK, MasterTypeOK, BridgeTypeOK
<1> QED BY <1>4, <1>5, <1>6

\* The bridge keeps its types.
LEMMA BridgeTypes ==
  ASSUME TypeOK,
         NEW waitrequest \in BOOLEAN, NEW rdv \in BOOLEAN, NEW commits,
         BridgeEdge(waitrequest, rdv, commits)
  PROVE  BridgeTypeOK'
<1> USE DEF BridgeEdge, TypeOK, MasterTypeOK, BridgeTypeOK
<1>1. ddr' \in [Cells -> Words]
  OBVIOUS
<1>2. posted' \in [Cells -> Words]
  OBVIOUS
<1>3. left' \in [Cells -> 0 .. CommitDelay]
  <2>1. \A c \in Cells : left[c] \in 0 .. CommitDelay
    OBVIOUS
  <2>2. \A c \in Cells : left'[c] \in 0 .. CommitDelay
    BY <2>1
  <2> QED BY <2>2
<1>4. answer' \in Words \cup {NoWord}
  OBVIOUS
<1> QED BY <1>1, <1>2, <1>3, <1>4

\* The master keeps its types, provided a returned word is a word.
LEMMA MasterTypes ==
  ASSUME TypeOK,
         NEW rdReq \in BOOLEAN, NEW wrReq \in BOOLEAN,
         NEW waitrequest \in BOOLEAN, NEW rdv \in BOOLEAN,
         NEW addr \in Blocks, NEW wrData \in Lines, NEW readdata,
         rdv => readdata \in Words,
         MasterEdge(rdReq, addr, wrReq, addr, wrData, waitrequest, rdv, readdata)
  PROVE  MasterTypeOK'
<1> USE DEF TypeOK, MasterTypeOK, BridgeTypeOK, MasterEdge, IdleRead, IdleWrite, IdleWait, RdIssue, RdWait,
            RdDone, WrIssue, WrSettle, WrDone, NoPulse, NoStrobe
<1>1. state' \in States
  OBVIOUS
<1>2. beat_cnt' \in Beats
  OBVIOUS
<1>3. req_block_addr' \in Blocks /\ req_wr_data' \in Lines
  OBVIOUS
<1>4. rd_line' \in Lines
  OBVIOUS
<1>5. mem_rd_data' \in Lines
  OBVIOUS
<1>6. mem_rd_valid' \in BOOLEAN /\ mem_wr_done' \in BOOLEAN
  OBVIOUS
<1>7. avm_read' \in BOOLEAN /\ avm_write' \in BOOLEAN
  OBVIOUS
<1>8. avm_address' \in Cells /\ avm_writedata' \in Words
  OBVIOUS
<1>9. wr_settle_cnt' \in 0 .. WR_SETTLE_CYCLES
  OBVIOUS
<1> QED BY <1>1, <1>2, <1>3, <1>4, <1>5, <1>6, <1>7, <1>8, <1>9

(***************************************************************************)
(* Every edge preserves the invariant.  Outside the write states the       *)
(* bridge holds still, so only the master's own arm of the case matters.   *)
(***************************************************************************)
LEMMA EdgeIInv ==
  ASSUME IInv,
         NEW rdReq \in BOOLEAN, NEW wrReq \in BOOLEAN,
         NEW waitrequest \in BOOLEAN, NEW rdv \in BOOLEAN,
         NEW addr \in Blocks, NEW wrData \in Lines,
         NEW commits \in SUBSET InFlight,
         Edge(rdReq, addr, wrReq, addr, wrData, waitrequest, rdv, commits)
  PROVE  IInv'
<1> USE DEF IInv, NoPulse, NoStrobe
<1>b. BridgeEdge(waitrequest, rdv, commits)
  BY DEF Edge
<1>t. BridgeTypeOK'
  BY <1>b, BridgeTypes
<1>h. ~Writing => ddr' = ddr /\ posted' = posted /\ left' = left
  BY <1>b, BridgeHolds
<1>m. TypeOK'
  <2>1. rdv => answer \in Words
    BY <1>b DEF BridgeEdge, TypeOK, MasterTypeOK, BridgeTypeOK
  <2>2. MasterEdge(rdReq, addr, wrReq, addr, wrData, waitrequest, rdv, answer)
    BY DEF Edge
  <2> QED BY <2>1, <2>2, <1>t, MasterTypes DEF TypeOK
<1>p. PulseInv'
  BY DEF PulseInv, Edge, MasterEdge, IdleRead, IdleWrite, IdleWait, RdIssue,
         RdWait, RdDone, WrIssue, WrSettle, WrDone
<1>1. CASE IdleRead(rdReq, addr)
  <2> USE <1>1, <1>h, <1>t DEF IdleRead
  <2>2. StrobeInv' /\ ReadInv' /\ WriteInv' /\ FlightInv'
    BY DEF StrobeInv, ReadInv, WriteInv, FlightInv, TypeOK, MasterTypeOK, BridgeTypeOK
  <2>3. AnswerInv'
    BY <1>b DEF AnswerInv, StrobeInv, BridgeEdge
  <2> QED BY <1>m, <1>p, <2>2, <2>3
<1>2. CASE IdleWrite(rdReq, wrReq, addr, wrData)
  <2> USE <1>2, <1>h, <1>t DEF IdleWrite
  <2>2. StrobeInv' /\ ReadInv' /\ WriteInv' /\ FlightInv'
    BY DEF StrobeInv, ReadInv, WriteInv, FlightInv, TypeOK, MasterTypeOK, BridgeTypeOK
  <2>3. AnswerInv'
    BY <1>b DEF AnswerInv, StrobeInv, BridgeEdge
  <2> QED BY <1>m, <1>p, <2>2, <2>3
<1>3. CASE IdleWait(rdReq, wrReq)
  <2> USE <1>3, <1>h, <1>t DEF IdleWait
  <2>2. StrobeInv' /\ ReadInv' /\ WriteInv' /\ FlightInv'
    BY DEF StrobeInv, ReadInv, WriteInv, FlightInv, TypeOK, MasterTypeOK, BridgeTypeOK
  <2>3. AnswerInv'
    BY <1>b DEF AnswerInv, StrobeInv, BridgeEdge
  <2> QED BY <1>m, <1>p, <2>2, <2>3
<1>4. CASE RdIssue(waitrequest)
  <2> USE <1>4, <1>h, <1>t DEF RdIssue
  <2>2. StrobeInv' /\ ReadInv' /\ WriteInv' /\ FlightInv'
    BY DEF StrobeInv, ReadInv, WriteInv, FlightInv, TypeOK, MasterTypeOK, BridgeTypeOK
  <2>3. AnswerInv'
    <3>1. ddr[beat_addr] \in Words
      BY DEF TypeOK, MasterTypeOK, BridgeTypeOK
    <3>2. state' = "S_RD_WAIT" <=> avm_read /\ ~waitrequest
      OBVIOUS
    <3>3. answer = NoWord
      BY DEF AnswerInv
    <3>4. answer' = IF avm_read /\ ~waitrequest THEN ddr[beat_addr] ELSE NoWord
      BY <1>b, <3>3 DEF BridgeEdge, StrobeInv
    <3> QED BY <3>1, <3>2, <3>4 DEF AnswerInv
  <2> QED BY <1>m, <1>p, <2>2, <2>3
<1>5. CASE RdWait(rdv, answer)
  <2> USE <1>5, <1>h, <1>t DEF RdWait
  <2>0. answer = ddr[beat_addr] /\ ddr[beat_addr] \in Words
    BY DEF AnswerInv, TypeOK, MasterTypeOK, BridgeTypeOK
  <2>2. StrobeInv' /\ WriteInv' /\ FlightInv'
    BY DEF StrobeInv, WriteInv, FlightInv, TypeOK, MasterTypeOK, BridgeTypeOK
  <2>3. AnswerInv'
    BY <1>b DEF AnswerInv, StrobeInv, BridgeEdge, TypeOK, MasterTypeOK, BridgeTypeOK
  <2>4. ReadInv'
    <3>1. CASE ~rdv
      BY <3>1 DEF ReadInv, TypeOK, MasterTypeOK, BridgeTypeOK
    <3>2. CASE rdv
      <4> SUFFICES ASSUME NEW i \in Beats, i < beat_cnt' \/ state' = "S_RD_DONE"
                   PROVE  rd_line'[i] = ddr'[<<req_block_addr', i>>]
        BY DEF ReadInv
      <4>1. i <= beat_cnt /\ rd_line' = [rd_line EXCEPT ![beat_cnt] = answer]
        BY <3>2 DEF TypeOK, MasterTypeOK, BridgeTypeOK
      <4>2. CASE i = beat_cnt
        BY <4>1, <4>2, <2>0 DEF TypeOK, MasterTypeOK
      <4>3. CASE i < beat_cnt
        BY <4>1, <4>3 DEF ReadInv, TypeOK, MasterTypeOK
      <4> QED BY <4>1, <4>2, <4>3 DEF TypeOK, MasterTypeOK
    <3> QED BY <3>1, <3>2
  <2> QED BY <1>m, <1>p, <2>2, <2>3, <2>4
<1>6. CASE RdDone
  <2> USE <1>6, <1>h, <1>t DEF RdDone
  <2>2. StrobeInv' /\ ReadInv' /\ WriteInv' /\ FlightInv'
    BY DEF StrobeInv, ReadInv, WriteInv, FlightInv, TypeOK, MasterTypeOK, BridgeTypeOK
  <2>3. AnswerInv'
    BY <1>b DEF AnswerInv, StrobeInv, BridgeEdge
  <2> QED BY <1>m, <1>p, <2>2, <2>3
<1>7. CASE WrIssue(waitrequest)
  <2> USE <1>7, <1>t DEF WrIssue
  <2>2. StrobeInv' /\ ReadInv'
    BY DEF StrobeInv, ReadInv, TypeOK, MasterTypeOK, BridgeTypeOK
  <2>3. AnswerInv'
    BY <1>b DEF AnswerInv, StrobeInv, BridgeEdge
  <2>4. WriteInv'
    BY <1>b DEF WriteInv, StrobeInv, BridgeEdge, TypeOK, MasterTypeOK, BridgeTypeOK
  <2>5. FlightInv'
    BY <1>b DEF FlightInv, StrobeInv, BridgeEdge, TypeOK, MasterTypeOK, BridgeTypeOK, Due
  <2> QED BY <1>m, <1>p, <2>2, <2>3, <2>4, <2>5
<1>8. CASE WrSettle
  <2> USE <1>8, <1>t DEF WrSettle
  <2>2. StrobeInv' /\ ReadInv'
    BY DEF StrobeInv, ReadInv, TypeOK, MasterTypeOK, BridgeTypeOK
  <2>3. AnswerInv'
    BY <1>b DEF AnswerInv, StrobeInv, BridgeEdge
  <2>4. WriteInv'
    BY <1>b DEF WriteInv, StrobeInv, BridgeEdge, TypeOK, MasterTypeOK, BridgeTypeOK
  <2>5. FlightInv'
    BY <1>b DEF FlightInv, StrobeInv, BridgeEdge, TypeOK, MasterTypeOK, BridgeTypeOK, Due
  <2> QED BY <1>m, <1>p, <2>2, <2>3, <2>4, <2>5
<1>9. CASE WrDone
  <2> USE <1>9, <1>t DEF WrDone
  <2>2. StrobeInv' /\ ReadInv' /\ WriteInv'
    BY DEF StrobeInv, ReadInv, WriteInv, TypeOK, MasterTypeOK, BridgeTypeOK
  <2>3. AnswerInv'
    BY <1>b DEF AnswerInv, StrobeInv, BridgeEdge
  <2>4. FlightInv'
    BY <1>b DEF FlightInv, StrobeInv, BridgeEdge, TypeOK, MasterTypeOK, BridgeTypeOK, Due
  <2> QED BY <1>m, <1>p, <2>2, <2>3, <2>4
<1> QED BY <1>1, <1>2, <1>3, <1>4, <1>5, <1>6, <1>7, <1>8, <1>9
        DEF Edge, MasterEdge

LEMMA StepIInv == IInv /\ [Next]_vars => IInv'
<1> SUFFICES ASSUME IInv, [Next]_vars PROVE IInv'
  OBVIOUS
<1>1. CASE Next
  BY <1>1, EdgeIInv DEF Next
<1>2. CASE UNCHANGED vars
  BY <1>2 DEF vars, masterVars, bridgeVars, IInv, TypeOK, MasterTypeOK,
              BridgeTypeOK, PulseInv, StrobeInv, AnswerInv, ReadInv, WriteInv,
              FlightInv
<1> QED BY <1>1, <1>2

LEMMA InvariantHolds == Spec => []IInv
BY InitIInv, StepIInv, PTL DEF Spec

\* Every register keeps its type; in particular the beat counter never
\* leaves 0 .. NBeats - 1.
THEOREM TypeCorrect == Spec => []TypeOK
<1>1. IInv => TypeOK
  BY DEF IInv
<1> QED BY <1>1, InvariantHolds, PTL

\* A read never returns a word older than the newest accepted write of the
\* same cell, for every fabric delay that the settle period covers.
THEOREM FreshReads == Spec => []ReadsAreFresh
<1>1. IInv => ReadsAreFresh
  BY DEF IInv, ReadsAreFresh, AnswerInv, FlightInv, TypeOK, MasterTypeOK,
         BridgeTypeOK
<1> QED BY <1>1, InvariantHolds, PTL

\* Once mem_busy is low, all accepted writes have reached the SDRAM.
THEOREM DurableWrites == Spec => []WritesAreDurable
<1>1. IInv => WritesAreDurable
  BY DEF IInv, WritesAreDurable, FlightInv, TypeOK, BridgeTypeOK
<1> QED BY <1>1, InvariantHolds, PTL

-----------------------------------------------------------------------------
(* The refinement.                                                         *)

\* With nothing in flight the line memory is what the SDRAM holds; while a
\* line is being written no other line changes.
LEMMA LineMemHolds ==
  ASSUME IInv,
         NEW waitrequest \in BOOLEAN, NEW rdv \in BOOLEAN, NEW commits,
         BridgeEdge(waitrequest, rdv, commits)
  PROVE  \A b \in Blocks : (~Writing \/ b # req_block_addr)
            => [i \in Beats |-> ddr'[<<b, i>>]] = [i \in Beats |-> ddr[<<b, i>>]]
<1> SUFFICES ASSUME NEW b \in Blocks, ~Writing \/ b # req_block_addr,
                    NEW i \in Beats
             PROVE  ddr'[<<b, i>>] = ddr[<<b, i>>]
  OBVIOUS
<1>1. left[<<b, i>>] = 0
  BY DEF IInv, FlightInv, TypeOK, BridgeTypeOK
<1>2. <<b, i>> \notin commits
  BY <1>1 DEF BridgeEdge, InFlight
<1> QED BY <1>2 DEF BridgeEdge

\* Every edge is a step of the line memory or leaves it alone.
LEMMA EdgeRefines ==
  ASSUME IInv, IInv',
         NEW rdReq \in BOOLEAN, NEW wrReq \in BOOLEAN,
         NEW waitrequest \in BOOLEAN, NEW rdv \in BOOLEAN,
         NEW addr \in Blocks, NEW wrData \in Lines,
         NEW commits \in SUBSET InFlight,
         Edge(rdReq, addr, wrReq, addr, wrData, waitrequest, rdv, commits)
  PROVE  [LM!LMNext]_(LM!lmVars)
<1> HIDE DEF Beats, Lines, Cells
<1> USE DEF LM!lmVars, LM!Quiet, NoPulse
<1>b. BridgeEdge(waitrequest, rdv, commits)
  BY DEF Edge
<1>h. \A b \in Blocks : (~Writing \/ b # req_block_addr)
         => [i \in Beats |-> ddr'[<<b, i>>]] = [i \in Beats |-> ddr[<<b, i>>]]
  BY <1>b, LineMemHolds
<1>r. req_block_addr \in Blocks /\ req_block_addr # NoBlock
  BY DEF IInv, TypeOK, MasterTypeOK
<1>1. CASE IdleRead(rdReq, addr)
  <2>1. LineMem' = LineMem
    BY <1>1, <1>h DEF IdleRead, LineMem
  <2>2. LM!AcceptRead(addr)
    BY <1>1, <2>1 DEF IdleRead, LM!AcceptRead
  <2> QED BY <2>2 DEF LM!LMNext
<1>2. CASE IdleWrite(rdReq, wrReq, addr, wrData)
  <2>1. LineMem' = [LineMem EXCEPT ![addr] = wrData]
    BY <1>2, <1>h DEF IdleWrite, LineMem
  <2>2. LM!AcceptWrite(addr, wrData)
    BY <1>2, <2>1 DEF IdleWrite, LM!AcceptWrite
  <2> QED BY <2>2 DEF LM!LMNext
<1>3. CASE IdleWait(rdReq, wrReq)
  <2>1. LineMem' = LineMem
    BY <1>3, <1>h DEF IdleWait, LineMem
  <2>2. LM!StayIdle
    BY <1>3, <2>1 DEF IdleWait, LM!StayIdle
  <2> QED BY <2>2 DEF LM!LMNext
<1>4. CASE RdIssue(waitrequest) \/ RdWait(rdv, answer)
  <2>1. LineMem' = LineMem
    BY <1>4, <1>h DEF RdIssue, RdWait, LineMem
  <2>2. UNCHANGED LM!lmVars
    BY <1>4, <2>1 DEF RdIssue, RdWait, IInv, PulseInv, TypeOK, MasterTypeOK
  <2> QED BY <2>2
<1>5. CASE RdDone
  <2>1. LineMem' = LineMem
    BY <1>5, <1>h DEF RdDone, LineMem
  <2>2. rd_line = LineMem[req_block_addr]
    <3>1. rd_line \in [Beats -> Words]
      BY DEF IInv, TypeOK, MasterTypeOK, Lines
    <3>2. \A i \in Beats : rd_line[i] = ddr[<<req_block_addr, i>>]
      BY <1>5 DEF RdDone, IInv, ReadInv
    <3>3. rd_line = [i \in Beats |-> ddr[<<req_block_addr, i>>]]
      BY <3>1, <3>2
    <3> QED BY <1>5, <1>r, <3>3 DEF RdDone, LineMem
  <2>3. LM!FinishRead
    BY <1>5, <1>r, <2>1, <2>2 DEF RdDone, LM!FinishRead
  <2> QED BY <2>3 DEF LM!LMNext
<1>6. CASE WrIssue(waitrequest) \/ WrSettle
  <2>1. LineMem' = LineMem
    BY <1>6, <1>h DEF WrIssue, WrSettle, LineMem
  <2>2. UNCHANGED LM!lmVars
    BY <1>6, <2>1 DEF WrIssue, WrSettle, IInv, PulseInv, TypeOK, MasterTypeOK
  <2> QED BY <2>2
<1>7. CASE WrDone
  <2>1. req_wr_data = [i \in Beats |-> ddr'[<<req_block_addr, i>>]]
    <3>1. req_wr_data \in [Beats -> Words]
      BY DEF IInv, TypeOK, MasterTypeOK, Lines
    <3>2. \A c \in Cells : left'[c] = 0
      BY <1>7 DEF WrDone, IInv, FlightInv, TypeOK, BridgeTypeOK
    <3>3. \A i \in Beats : posted[<<req_block_addr, i>>] = req_wr_data[i]
      BY <1>7 DEF WrDone, IInv, WriteInv
    <3>4. posted' = posted
      BY <1>7, <1>b DEF WrDone, BridgeEdge, IInv, StrobeInv
    <3>5. \A i \in Beats : <<req_block_addr, i>> \in Cells
      BY <1>r DEF Cells
    <3>6. \A i \in Beats : ddr'[<<req_block_addr, i>>] = req_wr_data[i]
      BY <3>2, <3>3, <3>4, <3>5 DEF IInv, FlightInv
    <3> QED BY <3>1, <3>6
  <2>2. LineMem' = LineMem
    BY <1>7, <1>h, <2>1 DEF WrDone, LineMem
  <2>3. LM!FinishWrite
    BY <1>7, <1>r, <2>2 DEF WrDone, LM!FinishWrite
  <2> QED BY <2>3 DEF LM!LMNext
<1> QED BY <1>1, <1>2, <1>3, <1>4, <1>5, <1>6, <1>7 DEF Edge, MasterEdge

(***************************************************************************)
(* The master and the bridge together implement the line memory: a line is *)
(* transferred whole and current, or not at all.                           *)
(***************************************************************************)
THEOREM Refinement == Spec => ImplementsLineMemory
<1>1. Init => LM!LMInit
  <2> SUFFICES ASSUME Init PROVE LM!LMInit
    OBVIOUS
  <2>1. LineMem \in [Blocks -> Lines]
    BY DEF Init, MasterInit, BridgeInit, LineMem
  <2>2. ZeroLine \in Lines
    OBVIOUS
  <2> QED
    <3> HIDE DEF Lines, ZeroLine
    <3> QED BY <2>1, <2>2 DEF Init, MasterInit, LM!LMInit
<1>2. IInv /\ IInv' /\ [Next]_vars => [LM!LMNext]_(LM!lmVars)
  <2> SUFFICES ASSUME IInv, IInv', [Next]_vars
               PROVE  [LM!LMNext]_(LM!lmVars)
    OBVIOUS
  <2>1. CASE Next
    BY <2>1, EdgeRefines DEF Next
  <2>2. CASE UNCHANGED vars
    BY <2>2 DEF vars, masterVars, bridgeVars, LM!lmVars, LineMem
  <2> QED BY <2>1, <2>2
<1> QED BY <1>1, <1>2, InvariantHolds, PTL
        DEF Spec, ImplementsLineMemory, LM!LMSpec
=============================================================================
