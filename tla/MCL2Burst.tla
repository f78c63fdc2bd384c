----------------------------- MODULE MCL2Burst -----------------------------
(* The L2 over the Avalon master under pairs of misses, with two sets.     *)
EXTENDS L2Avalon, TLC

INSTANCE Replacement

CONSTANTS Set0, Set1      \* the blocks of two sets

MCBlocks == Set0 \cup Set1
MCSetOf  == [b \in MCBlocks |-> IF b \in Set0 THEN 0 ELSE 1]

\* Blocks of a set are interchangeable when their contents never change.
Symmetry == Permutations(Set0) \cup Permutations(Set1)

(***************************************************************************)
(* A requester that has two misses outstanding, every victim dirty, and    *)
(* then lets the hierarchy become quiet; a memory that answers at once.    *)
(***************************************************************************)
VARIABLE burst     \* misses since everything was quiet, at most two

AtRest   == Quiet /\ s1_req = NoBlock /\ l2_req = NoBlock
MayMiss  == AtRest \/ burst = 1
AllDirty == wb' # NoWb \/ held \subseteq held'

BurstInit == AvalonInit /\ burst = 0
BurstNext ==
  /\ \/ \E miss \in Blocks : /\ MayMiss /\ AvalonStep(miss)
                             /\ burst' = IF AtRest THEN 1 ELSE 2
     \/ ~AtRest /\ AvalonStep(NoBlock) /\ UNCHANGED burst
  /\ Memory(FALSE)
  /\ AllDirty

BurstSpec == BurstInit /\ [][BurstNext]_<<avalonVars, burst>>
=============================================================================
