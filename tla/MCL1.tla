-------------------------------- MODULE MCL1 --------------------------------
(* L1 with every request and response possible in every cycle.             *)
EXTENDS L1

MCSetOf == [b \in Blocks |-> b % 2]
=============================================================================
