----------------------------- MODULE MCL2Avalon -----------------------------
EXTENDS L2Avalon

INSTANCE Replacement

MCSetOf == [b \in Blocks |-> 0]
=============================================================================
