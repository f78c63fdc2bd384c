----------------------------- MODULE WordMemory -----------------------------
(***************************************************************************)
(* What the processor side expects of the memory hierarchy: a memory of    *)
(* words that takes one request at a time and answers each exactly once, a *)
(* load with the word last stored.                                         *)
(***************************************************************************)
CONSTANTS Blocks, Offsets, Words, ZeroWord, Reqs, NoReq

VARIABLES mem,      \* [Blocks -> [Offsets -> Words]]
          cur,      \* the request being served, or NoReq
          rvalid,   \* it is being answered in this cycle ...
          rload,    \* ... as a load ...
          rdata     \* ... with this word

wmVars == <<mem, cur, rvalid, rload, rdata>>

NoAnswer == rvalid' = FALSE /\ rload' = FALSE /\ rdata' = ZeroWord

WMInit ==
  /\ mem \in [Blocks -> [Offsets -> Words]]
  /\ cur = NoReq
  /\ rvalid = FALSE /\ rload = FALSE /\ rdata = ZeroWord

Accept(r) ==
  /\ cur = NoReq \/ rvalid
  /\ cur' = r
  /\ mem' = IF r.write THEN [mem EXCEPT ![r.block][r.offset] = r.wdata] ELSE mem
  /\ NoAnswer

Answer ==
  /\ cur # NoReq /\ ~rvalid
  /\ rvalid' = TRUE
  /\ rload' = ~cur.write
  /\ rdata' = IF cur.write THEN ZeroWord ELSE mem[cur.block][cur.offset]
  /\ UNCHANGED <<mem, cur>>

Release ==
  /\ rvalid
  /\ cur' = NoReq
  /\ NoAnswer
  /\ UNCHANGED mem

WMNext == Answer \/ Release \/ \E r \in Reqs \ {NoReq} : Accept(r)

WMSpec == WMInit /\ [][WMNext]_wmVars
=============================================================================
