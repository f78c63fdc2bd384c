------------------------------ MODULE L2Client ------------------------------
(***************************************************************************)
(* The L2 under the traffic that L1 makes, with L1's data, queues and      *)
(* victim choice abstracted: L1 holds some blocks, fetches blocks it does  *)
(* not hold through two miss registers, one request per cycle, and when an *)
(* answer arrives makes room by dropping one block, handed down if it is   *)
(* dirty.  L1's own lookup sees a block as held until the edge on which it *)
(* is dropped.                                                             *)
(***************************************************************************)
EXTENDS L2, FiniteSets

CONSTANTS L1Capacity,     \* blocks L1 can hold
          L1Mshrs,        \* misses L1 can have outstanding (2)
          Varied          \* bound: blocks whose contents L1 ever changes

ASSUME L1SizeAssumption == L1Capacity \in Nat \ {0} /\ L1Mshrs \in {1, 2}

VARIABLES
  held,        \* blocks in L1
  unsent,      \* blocks in an L1 MSHR, not requested yet
  sent,        \* blocks requested
  l2_req, wb,  \* L1's ports to the L2: a block or NoBlock, a line or NoWb
  resp_for,    \* history: the block l2_resp is the contents of
  defer_for    \* history: the same of defer

clientVars == <<held, unsent, sent, l2_req, wb>>
labels     == <<resp_for, defer_for>>
vars       == <<l2Vars, clientVars, labels>>

ClientInit ==
  /\ held = {} /\ unsent = {} /\ sent = {}
  /\ l2_req = NoBlock /\ wb = NoWb
  /\ resp_for = NoBlock /\ defer_for = NoBlock

\* What a dirty line of b may contain.
Contents(b) == IF b \in Varied THEN Lines ELSE {ZeroLine}

\* The request port: one MSHR per cycle.
Request ==
  IF unsent = {} THEN l2_req' = NoBlock ELSE l2_req' \in unsent

\* A miss takes a free MSHR; a freed one is seen as free one edge later.
MissOf(b) ==
  /\ b \notin held \cup unsent \cup sent
  /\ Cardinality(unsent \cup sent) < L1Mshrs
  /\ unsent' = (unsent \ {l2_req'}) \cup {b}
NoMiss == unsent' = unsent \ {l2_req'}

\* An answer: the block comes in, a victim may go, clean or dirty.
Keep(b) ==
  /\ Cardinality(held) < L1Capacity
  /\ held' = held \cup {b} /\ wb' = NoWb
Drop(b, victim) ==
  /\ held' = (held \ {victim}) \cup {b}
  /\ wb' \in {NoWb} \cup [block : {victim}, data : Contents(victim)]

Receive ==
  IF l2_resp = NoLine
  THEN wb' = NoWb /\ UNCHANGED held
  ELSE Keep(resp_for) \/ \E v \in held : Drop(resp_for, v)

ClientEdge(miss) ==
  /\ Request
  /\ IF miss = NoBlock THEN NoMiss ELSE MissOf(miss)
  /\ sent' = (sent \cup ({l2_req'} \ {NoBlock}))
               \ (IF l2_resp = NoLine THEN {} ELSE {resp_for})
  /\ Receive

\* Which block the next answer, and the next deferred hit, belong to.
Label(rd) ==
  /\ resp_for' = IF defer # NoLine THEN defer_for
                 ELSE IF Refilling(rd) THEN fill_blk
                 ELSE IF ReadHit THEN s1_req
                 ELSE NoBlock
  /\ defer_for' = IF Refilling(rd) /\ ReadHit THEN s1_req ELSE NoBlock

\* The L2 with its simulated memory.
Init == L2Init /\ ClientInit

Step(miss) == ClientEdge(miss) /\ Label(NoLine) /\ Edge(l2_req, wb, NoLine, FALSE)

Next == \E miss \in Blocks \cup {NoBlock} : Step(miss)

\* The clock runs.
Spec == Init /\ [][Next]_vars /\ WF_vars(Next)
-----------------------------------------------------------------------------
(* Properties.                                                             *)

\* The newest version of a line outside L1: on its way down, in the L2, on
\* its way to the memory, or in the memory mem.
EvictedAs(b) == {k \in 1 .. Len(evict) : evict[k].block = b}
Newest(mem, b) ==
  IF wb.block = b THEN wb.data
  ELSE IF s1_wb.block = b THEN s1_wb.data
  ELSE IF defer_wb.block = b THEN defer_wb.data
  ELSE IF hit(b) THEN HitLine(b)
  ELSE IF EvictedAs(b) # {}
  THEN evict[CHOOSE k \in EvictedAs(b) : \A j \in EvictedAs(b) : j <= k].data
  ELSE IF ext_mem_wr_req.block = b THEN ext_mem_wr_req.data
  ELSE mem[b]

LS == INSTANCE LineStore
        WITH store   <- [b \in Blocks |-> Newest(backing_mem, b)],
             down    <- wb,
             pending <- sent \ {resp_for},
             for     <- resp_for,
             line    <- l2_resp

(***************************************************************************)
(* To L1 the L2 is a store of lines: whatever is deferred, evicted or      *)
(* fetched on the same edge, a write-back is never lost and every block    *)
(* asked for is answered with the line last handed down, once.             *)
(***************************************************************************)
ImplementsLineStore == LS!LSSpec

\* No request is forgotten, in particular none that meets a refill or waits
\* behind lower MSHRs.
FetchesAreAnswered == \A b \in Blocks : b \in sent ~> b \notin sent
=============================================================================
