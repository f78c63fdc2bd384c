----------------------------- MODULE L1Blocking -----------------------------
(***************************************************************************)
(* The L1 cache between a requester that waits for each answer (what the   *)
(* paced trace drivers amount to: mem_test.c and the test benches leave    *)
(* time between two operations) and a next level that answers line         *)
(* requests in order.                                                      *)
(***************************************************************************)
EXTENDS L1

CONSTANT StoredTo     \* bound: the words, <<block, offset>>, ever stored to

VARIABLES req,      \* the registered request port of the load/store queue
          cur,      \* the request that has not been answered yet, or NoReq
          below,    \* external: the lines of the level below
          pending   \* external: line requests the level below has taken

vars == <<l1Vars, req, cur, below, pending>>

Init ==
  /\ L1Init
  /\ req = NoReq /\ cur = NoReq
  /\ below = [b \in Blocks |-> ZeroLine]
  /\ pending = <<>>

\* The requester issues only when nothing is outstanding or the answer to
\* what is outstanding is on the port in this cycle.
Issues(r) ==
  /\ cur = NoReq \/ resp_valid
  /\ r.write => <<r.block, r.offset>> \in StoredTo
  /\ req' = r /\ cur' = r

Waits ==
  /\ req' = NoReq
  /\ cur' = IF resp_valid THEN NoReq ELSE cur

\* The level below takes a write-back and a line request as they come and
\* answers the oldest request when it chooses to.
Below(answers) ==
  LET rest == IF answers THEN Tail(pending) ELSE pending
  IN /\ answers => pending # <<>>
     /\ pending' = IF l2_req_valid THEN Append(rest, l2_req_addr) ELSE rest
     /\ below' = IF wb_valid THEN [below EXCEPT ![wb_addr] = wb_data] ELSE below

Step(answers) ==
  /\ Below(answers)
  /\ Edge(req, IF answers THEN below[pending[1]] ELSE NoLine)
  /\ Waits \/ \E r \in Reqs \ {NoReq} : Issues(r)

Next == \E answers \in BOOLEAN : Step(answers)

\* The clock runs and the level below answers whenever it can.
Fairness == WF_vars(Step(pending # <<>>))

Spec == Init /\ [][Next]_vars /\ Fairness

-----------------------------------------------------------------------------
\* The current contents of a block, wherever they are: in the cache, in a
\* miss queue over the level below, in the write-back register, below.
Beneath(b) == IF wb_valid /\ wb_addr = b THEN wb_data ELSE below[b]
Contents(b) ==
  IF lookup_hit(b) THEN lines[HitWay(b)][SetOf[b]].data
  ELSE IF InMshr(0, b) THEN Replay(Beneath(b), mshr[0].queue)
  ELSE IF InMshr(1, b) THEN Replay(Beneath(b), mshr[1].queue)
  ELSE Beneath(b)

\* A store counts from the moment it is on the request port.
Stored(b) == IF req.valid /\ req.write /\ req.block = b
             THEN [Contents(b) EXCEPT ![req.offset] = req.wdata]
             ELSE Contents(b)

WM == INSTANCE WordMemory
        WITH mem    <- [b \in Blocks |-> Stored(b)],
             rvalid <- resp_valid,
             rload  <- resp_is_load,
             rdata  <- IF resp_is_load THEN resp_rdata ELSE ZeroWord

(***************************************************************************)
(* To a requester that waits for its answers the cache is a memory: every  *)
(* load, hit or refilled, returns the word last stored, however often the  *)
(* line was evicted, written back and fetched in between; each request is  *)
(* answered once and by the right kind of answer.                          *)
(***************************************************************************)
ImplementsWordMemory == WM!WMSpec

\* Every request is answered.
RequestsAreAnswered == cur # NoReq ~> resp_valid
=============================================================================
