------------------------------- MODULE MCDtlb -------------------------------
(***************************************************************************)
(* Dtlb with a history variable: how many accesses each slot has survived  *)
(* since it was last used.                                                 *)
(***************************************************************************)
EXTENDS Dtlb, TLC

\* The pages are interchangeable, but for the one that the reset leaves in
\* every slot.
Symmetry == Permutations(Pages \ {ZeroPage})

VARIABLES
  idle,           \* [Entries -> 0 .. DEPTH], saturated at DEPTH
  spared          \* slots not rewritten since the run of evictions began

mcVars == <<vars, idle, spared>>

\* Slot i is accessed: every other slot has been idle for one access more.
Touch(age, i) ==
  [j \in Entries |-> IF j = i THEN 0 ELSE IF age[j] < DEPTH THEN age[j] + 1 ELSE DEPTH]

\* A fill evicts a page.  A run of evictions ends with any other access, and
\* a new one begins when every slot has been rewritten.
Evicting(page) == ~any_hit(page) /\ Invalid = {}
Untouched      == IF spared = {} THEN Entries ELSE spared
Spare(page) ==
  IF Evicting(page) THEN Untouched \ {fill_write_idx(page)} ELSE Entries

MCInit == Init /\ idle = [i \in Entries |-> DEPTH] /\ spared = Entries

MCNext ==
  \/ Reset /\ idle' = [i \in Entries |-> DEPTH] /\ spared' = Entries
  \/ EdgeIdle /\ UNCHANGED <<idle, spared>>
  \/ \E p \in Pages, f \in Frames :
       /\ EdgeFill(p, f)
       /\ idle' = Touch(idle, fill_write_idx(p))
       /\ spared' = Spare(p)
  \/ \E p \in Pages, o \in Offsets :
       /\ EdgeLookup(p, o)
       /\ IF any_hit(p)
          THEN idle' = Touch(idle, hit_idx(p)) /\ spared' = Entries
          ELSE UNCHANGED <<idle, spared>>
  \/ \E fp, p \in Pages, f \in Frames, o \in Offsets :
       /\ EdgeBoth(fp, f, p, o)
       /\ LET filled == Touch(idle, fill_write_idx(fp))
          IN IF any_hit(p)
             THEN idle' = Touch(filled, hit_idx(p)) /\ spared' = Entries
             ELSE idle' = filled /\ spared' = Spare(fp)

MCSpec == MCInit /\ [][MCNext]_mcVars

(***************************************************************************)
(* The replacement guarantee of the tree (lines 128-174): a slot is chosen *)
(* as the victim only after at least DEPTH accesses to other slots, so the *)
(* most recently used translation is never the one thrown away.            *)
(***************************************************************************)
VictimWasIdle == idle[victim_idx(plru_tree)] = DEPTH

(***************************************************************************)
(* What tlb_evict.c (lines 124-134) and clear_tlb.c (117-122) rely on, for *)
(* a TLB that is full: NUM_ENTRIES pages filled one after the other throw  *)
(* out every page it held.  The tree never picks a slot that was rewritten *)
(* in the same run of fills, although it keeps one bit per pair and not    *)
(* the order of use.                                                       *)
(***************************************************************************)
EvictionsGoRound ==
  [][\A p \in Pages, f \in Frames :
       EdgeFill(p, f) /\ Evicting(p) => fill_write_idx(p) \in Untouched]_mcVars
=============================================================================
