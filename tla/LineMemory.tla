----------------------------- MODULE LineMemory -----------------------------
(***************************************************************************)
(* What the L2 cache relies on when it talks to the memory below it: a     *)
(* memory of whole cache lines that serves one request at a time.  A write *)
(* takes effect atomically when it is accepted; a read answers with the    *)
(* whole current line.  Both end with a one-cycle pulse.                   *)
(***************************************************************************)
CONSTANTS Blocks,   \* line addresses
          Lines,    \* line contents
          NoBlock   \* not a block: no request is being served

VARIABLES mem,        \* the contents of every line
          serving,    \* the block whose request is being served, or NoBlock
          reading,    \* whether that request is a read
          rd_valid,   \* pulse: rd_data is the line that was asked for
          rd_data,
          wr_done     \* pulse: the write has been completed

lmVars == <<mem, serving, reading, rd_valid, rd_data, wr_done>>

LMInit ==
  /\ mem \in [Blocks -> Lines]
  /\ serving = NoBlock
  /\ reading = FALSE
  /\ rd_valid = FALSE
  /\ rd_data \in Lines
  /\ wr_done = FALSE

\* No pulse is raised and rd_data keeps its last value.
Quiet == rd_valid' = FALSE /\ wr_done' = FALSE /\ UNCHANGED rd_data

StayIdle ==
  /\ serving = NoBlock
  /\ Quiet
  /\ UNCHANGED <<mem, serving, reading>>

AcceptRead(b) ==
  /\ serving = NoBlock
  /\ serving' = b /\ reading' = TRUE
  /\ Quiet
  /\ UNCHANGED mem

AcceptWrite(b, line) ==
  /\ serving = NoBlock
  /\ serving' = b /\ reading' = FALSE
  /\ mem' = [mem EXCEPT ![b] = line]
  /\ Quiet

FinishRead ==
  /\ serving # NoBlock /\ reading
  /\ rd_valid' = TRUE /\ rd_data' = mem[serving]
  /\ serving' = NoBlock /\ reading' = FALSE
  /\ wr_done' = FALSE
  /\ UNCHANGED mem

FinishWrite ==
  /\ serving # NoBlock /\ ~reading
  /\ wr_done' = TRUE
  /\ serving' = NoBlock /\ reading' = FALSE
  /\ rd_valid' = FALSE
  /\ UNCHANGED <<mem, rd_data>>

LMNext ==
  \/ StayIdle
  \/ \E b \in Blocks : AcceptRead(b)
  \/ \E b \in Blocks, line \in Lines : AcceptWrite(b, line)
  \/ FinishRead
  \/ FinishWrite

LMSpec == LMInit /\ [][LMNext]_lmVars
=============================================================================
