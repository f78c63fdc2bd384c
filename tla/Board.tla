------------------------------- MODULE Board -------------------------------
(***************************************************************************)
(* The trace side of the FPGA: the two PIO registers that the HPS writes,  *)
(* the load/store queue that watches them, its TLB, and the sticky status  *)
(* register that the HPS reads (True_TOP.sv, DE10_NANO_SoC_GHRD.v).        *)
(*                                                                         *)
(* A trace line is read from two registers.  reg_a holds the operation,    *)
(* its id and its address, and the low byte of the value, which is left    *)
(* out; reg_b the rest of the value, or of the frame of a fill, and in its *)
(* top bits the request to clear the status.  One word per page, so an     *)
(* address is its page.  Of the status only the answer is kept.            *)
(***************************************************************************)
EXTENDS Lsq

CONSTANTS NUM_ENTRIES, DEPTH           \* of the TLB

\* dtlb.sv's check of its parameters; one word per page; registers start at 0.
ASSUME BoardAssumption ==
  /\ NUM_ENTRIES \in Nat \ {0, 1} /\ DEPTH \in Nat \ {0}
  /\ NUM_ENTRIES = 2^DEPTH
  /\ PhysAddrs = Vaddrs \X {0} /\ ZeroPaddr = <<ZeroVaddr, 0>>
  /\ 0 \in Ids

VARIABLES
  reg_a, reg_b,                        \* adder_a, adder_b
  seen, ret_data,                      \* status_sticky[63] and [29:0]
  valid, vpn, ppn, plru_tree, lookup_hit_o, lookup_paddr_o     \* the TLB's

tlbVars   == <<valid, vpn, ppn, plru_tree, lookup_hit_o, lookup_paddr_o>>
boardVars == <<lsqVars, reg_a, reg_b, seen, ret_data, tlbVars>>

TLB == INSTANCE Dtlb
         WITH Pages <- Vaddrs, Frames <- Vaddrs, Offsets <- {0},
              ZeroPage <- ZeroVaddr, ZeroFrame <- ZeroVaddr, NoFrame <- None

\* What the registers can hold.
ZeroA    == [op |-> "LOAD", id |-> 0, vv |-> FALSE, vaddr |-> ZeroVaddr]
ZeroB    == [value |-> ZeroValue, frame |-> ZeroPaddr, dv |-> FALSE, clear |-> FALSE]
Sentinel == [ZeroB EXCEPT !.dv = TRUE, !.clear = TRUE]

trace_line ==
  [op |-> reg_a.op, id |-> reg_a.id, vv |-> reg_a.vv, vaddr |-> reg_a.vaddr,
   dv |-> reg_b.dv, value |-> reg_b.value, frame |-> reg_b.frame]
clear_status == reg_b.clear

BoardInit ==
  /\ LsqInit /\ TLB!Init
  /\ reg_a = ZeroA /\ reg_b = ZeroB
  /\ seen = FALSE /\ ret_data = ZeroValue

\* The lookup address is the trace line's own, not the waiting entry's.
TlbEdge ==
  \/ ~tlb_req /\ tlb_fill = None /\ TLB!EdgeIdle
  \/ tlb_req /\ tlb_fill = None /\ TLB!EdgeLookup(trace_line.vaddr, 0)
  \/ /\ ~tlb_req /\ tlb_fill # None
     /\ TLB!EdgeFill(tlb_fill.vaddr, tlb_fill.paddr[1])
  \/ /\ tlb_req /\ tlb_fill # None
     /\ TLB!EdgeBoth(tlb_fill.vaddr, tlb_fill.paddr[1], trace_line.vaddr, 0)

\* Clearing wins over an answer of the same cycle.
StatusEdge(ret, rdata) ==
  /\ seen' = (~clear_status /\ (seen \/ ret))
  /\ ret_data' = IF clear_status THEN ZeroValue
                 ELSE IF ret THEN rdata ELSE ret_data

\* One edge of everything on the board but the caches, whose answer it takes.
BoardEdge(ret, rdata) ==
  /\ Edge(trace_line, lookup_hit_o, lookup_paddr_o, ret, rdata)
  /\ TlbEdge
  /\ StatusEdge(ret, rdata)
=============================================================================
