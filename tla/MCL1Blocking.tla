---------------------------- MODULE MCL1Blocking ----------------------------
EXTENDS L1Blocking

\* Two words of one line and one of another.
MCStoredTo == {<<0, 0>>, <<0, 1>>, <<1, 0>>}

MCSetOf == [b \in Blocks |-> 0]
=============================================================================
