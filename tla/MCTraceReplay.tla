--------------------------- MODULE MCTraceReplay ---------------------------
EXTENDS TraceReplay, TLC

MCPhysAddrs == Vaddrs \X {0}
MCZeroPaddr == <<ZeroVaddr, 0>>
=============================================================================
