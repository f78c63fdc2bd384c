---------------------------- MODULE MCStressTest ----------------------------
EXTENDS StressTest, TLC

MCPhysAddrs == Vaddrs \X {0}
MCZeroPaddr == <<ZeroVaddr, 0>>
Symmetry == Permutations(Vaddrs \ {ZeroVaddr})
=============================================================================
