----------------------------- MODULE LineStore -----------------------------
(***************************************************************************)
(* What L1 relies on when it talks to the L2: a store of lines.  A line    *)
(* handed down counts at once; every block asked for is answered once,     *)
(* with its current contents, in any order.  One step may do all three.    *)
(***************************************************************************)
EXTENDS Naturals

CONSTANTS Blocks, Lines, ZeroLine, NoBlock, NoLine, NoWb

VARIABLES store,     \* [Blocks -> Lines]
          down,      \* the write-back handed down in this cycle, or NoWb
          pending,   \* the blocks asked for and not answered
          for,       \* the block answered in this cycle, or NoBlock ...
          line       \* ... and the answer, or NoLine

lsVars == <<store, down, pending, for, line>>

LSInit == /\ store = [b \in Blocks |-> ZeroLine]
          /\ down = NoWb /\ pending = {} /\ for = NoBlock /\ line = NoLine

\* The store changes by what is handed down and by nothing else; a block
\* that is being fetched is not handed down.
Kept == down' = NoWb /\ UNCHANGED store
HandedDown(b, l) ==
  /\ b \notin pending
  /\ down' = [block |-> b, data |-> l]
  /\ store' = [store EXCEPT ![b] = l]

Silent      == for' = NoBlock /\ line' = NoLine
Answered(b) == b \in pending /\ for' = b /\ line' = store[b]

\* What is pending after a fetch (a set of at most one block).
Fetched(fetch) ==
  /\ fetch \cap pending = {}
  /\ pending' = (pending \ {for'}) \cup fetch

LSNext ==
  /\ Kept \/ \E b \in Blocks, l \in Lines : HandedDown(b, l)
  /\ Silent \/ \E b \in Blocks : Answered(b)
  /\ Fetched({}) \/ \E b \in Blocks : Fetched({b})

LSSpec == LSInit /\ [][LSNext]_lsVars
=============================================================================
