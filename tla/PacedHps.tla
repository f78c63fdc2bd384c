------------------------------ MODULE PacedHps ------------------------------
(***************************************************************************)
(* A program that leaves the hardware time after each operation.  The      *)
(* caches are the memory of words that L1Blocking is proved to be to a     *)
(* requester that waits, and answer within LATENCY cycles.  That the load/ *)
(* store queue waits is not assumed here but checked: RequesterWaits.      *)
(***************************************************************************)
EXTENDS Hps

CONSTANTS FILL_SLEEP, STORE_SLEEP,     \* bounds: the pauses, in cycles
          POLLS,                       \* bound: how often the status is polled
          LATENCY,                     \* bound: cycles the caches may take
          MAX_ID                       \* bound: ids are handed out from 1 to this

\* The microseconds of the programs against the cycles of the hardware.
ASSUME PaceAssumption ==
  /\ FILL_SLEEP \in Nat /\ LATENCY \in Nat /\ POLL_SLEEP \in Nat
  /\ STORE_SLEEP \in Nat /\ POLLS \in Nat
  /\ STORE_SLEEP >= LATENCY + 5 /\ POLLS * (POLL_SLEEP + 1) >= LATENCY + 6

VARIABLES
  mem, cur, rvalid, rload, rdata,      \* WordMemory's
  age,                                 \* cycles since cur was taken
  lost                                 \* a request met caches that were busy

pacedVars == <<hpsVars, mem, cur, rvalid, rload, rdata, age, lost>>

NoReq == None
Reqs  == [write : BOOLEAN, block : Vaddrs, offset : {0}, wdata : Values]
ASSUME NoReqAssumption == NoReq \notin Reqs

Caches == INSTANCE WordMemory WITH Blocks <- Vaddrs, Offsets <- {0},
            Words <- Values, ZeroWord <- ZeroValue

\* What DDR3 holds before the first store is of no interest to the programs.
PacedInit ==
  /\ HpsInit
  /\ Caches!WMInit /\ mem = [p \in Vaddrs |-> [o \in {0} |-> ZeroValue]]
  /\ age = 0 /\ lost = FALSE

MemReq(c) == [write |-> c.we, block |-> c.paddr[1], offset |-> 0, wdata |-> c.wdata]

CachesTake(c) ==
  IF cur = NoReq \/ rvalid
  THEN Caches!Accept(MemReq(c)) /\ age' = 0 /\ lost' = lost
  ELSE lost' = TRUE /\ UNCHANGED <<mem, cur, rvalid, rload, rdata, age>>

CachesServe ==
  /\ \/ (Caches!Answer \/ Caches!Release) /\ age' = 0
     \/ /\ cur # NoReq /\ ~rvalid /\ age < LATENCY /\ age' = age + 1
        /\ UNCHANGED <<mem, cur, rvalid, rload, rdata>>
     \/ cur = NoReq /\ UNCHANGED <<mem, cur, rvalid, rload, rdata, age>>
  /\ lost' = lost

\* With an acknowledgement of a store comes whatever word L1 read last.
HardwareEdge ==
  /\ \E word \in Values : BoardEdge(rvalid, IF rload THEN rdata ELSE word)
  /\ IF cache_req' # None THEN CachesTake(cache_req') ELSE CachesServe
-----------------------------------------------------------------------------
(***************************************************************************)
(* The load/store queue never puts a request on L1's port while an earlier *)
(* one, load or store, is unanswered: neither has a ready signal, and what *)
(* L1 is to a requester that waits it is to no other.                      *)
(***************************************************************************)
RequesterWaits == ~lost

(***************************************************************************)
(* Every cache request is the one the program asked for: its address is    *)
(* the translation of the line now on the registers, not of the operation  *)
(* before it or of a line half written, and a store carries its word.      *)
(***************************************************************************)
RequestsAreThePrograms ==
  [][cache_req' # None =>
       /\ cache_req'.paddr = <<reg_a.vaddr, 0>>
       /\ cache_req'.we = (reg_a.op = "STORE")
       /\ cache_req'.we => cache_req'.wdata = reg_b.value]_pacedVars

(***************************************************************************)
(* Between two routines of the program nothing is in flight in queue, TLB  *)
(* or caches, so no late answer can be taken for that of the next load.    *)
(***************************************************************************)
QuietBetweenRoutines ==
  Done => /\ load_is_empty /\ store_is_empty
          /\ tlb_pending = None /\ cache_pending = None /\ cur = NoReq
=============================================================================
