----------------------------- MODULE MCL2Client -----------------------------
EXTENDS L2Client, TLC

INSTANCE Replacement

MCSetOf == [b \in Blocks |-> 0]

(***************************************************************************)
(* The blocks whose contents never change are interchangeable: the tags    *)
(* and addresses that reset leaves behind are never looked at.             *)
(***************************************************************************)
Symmetry == Permutations(Blocks \ Varied)
=============================================================================
