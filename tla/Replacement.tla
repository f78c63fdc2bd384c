---------------------------- MODULE Replacement ----------------------------
(***************************************************************************)
(* The replacement policies of the L2 caches: tree pseudo-LRU over four    *)
(* ways (L2_copy.sv) and a FIFO pointer over any number (L2_FIFO.sv,       *)
(* L2_lru.sv).  An update is the set of states assigned, empty for none.   *)
(***************************************************************************)
EXTENDS Naturals

CONSTANT WAYS

(***************************************************************************)
(* Pseudo-LRU: bit 2 is the root, 0 the left pair, 1 the right pair; a set *)
(* bit points to the upper half.                                           *)
(***************************************************************************)
plru_states == [0 .. 2 -> BOOLEAN]
plru_reset  == [i \in 0 .. 2 |-> FALSE]

plru_victim(bits) ==
  IF bits[2] THEN (IF bits[1] THEN 3 ELSE 2)
  ELSE (IF bits[0] THEN 1 ELSE 0)

\* Fault: the bits point to the way just used.
plru_after_access_toward(bits, way) ==
  [bits EXCEPT ![IF way < 2 THEN 0 ELSE 1] = (way % 2 = 1), ![2] = (way >= 2)]

plru_after_access(bits, way) ==
  [bits EXCEPT ![IF way < 2 THEN 0 ELSE 1] = (way % 2 = 0), ![2] = (way < 2)]

plru_hit(bits, way)                == {plru_after_access(bits, way)}
plru_refill(bits, way, way0Valid)  == {plru_after_access(bits, way)}
plru_install(bits, way, evicting)  == {plru_after_access(bits, way)}

(***************************************************************************)
(* FIFO: the pointer is the victim.  A refill advances it when way 0 is    *)
(* valid, a write-back of an absent line when it evicts a dirty one.       *)
(***************************************************************************)
fifo_states == 0 .. (WAYS - 1)
fifo_reset  == 0
fifo_victim(ptr)  == ptr
fifo_advance(ptr) == (ptr + 1) % WAYS

fifo_hit(ptr, way)               == {}
fifo_refill(ptr, way, way0Valid) == IF way0Valid THEN {fifo_advance(ptr)} ELSE {}
fifo_install(ptr, way, evicting) == IF evicting THEN {fifo_advance(ptr)} ELSE {}
=============================================================================
