-------------------------------- MODULE Hps --------------------------------
(***************************************************************************)
(* A program on the HPS that drives the board.  What one of its routines   *)
(* will do on the bus is its script: register writes, pauses and polls of  *)
(* the status, carried out one at a time.  The clock runs all the while:   *)
(* a step is one edge of the hardware with or without progress of the      *)
(* program, so a pause lasts at least as long as it asks for.  A register  *)
(* takes all its 64 bits on one edge, as pio64_out.sv does from one write. *)
(***************************************************************************)
EXTENDS Board, Sequences

CONSTANT POLL_SLEEP              \* bound: the pause before a poll, in cycles

VARIABLE script                  \* what is left of the routine being run

hpsVars == <<boardVars, script>>

SetA(a)       == <<[do |-> "reg_a", val |-> a]>>
SetB(b)       == <<[do |-> "reg_b", val |-> b]>>
usleep(n)     == <<[do |-> "sleep", for |-> n]>>
PollStatus(n) == <<[do |-> "poll", left |-> n, for |-> POLL_SLEEP]>>

\* Fault: the half that carries the id is written first.
send_trace_a_first(a, b) == SetA(a) \o SetB(b)
send_trace(a, b) == SetB(b) \o SetA(a)

clear_status_script == SetA(ZeroA) \o SetB(Sentinel) \o SetB(ZeroB)

A(op, id, vaddr) == [op |-> op, id |-> id, vv |-> TRUE, vaddr |-> vaddr]
nop_script == send_trace([ZeroA EXCEPT !.op = "NOP", !.id = NoId], ZeroB)
fill_script(id, page) ==
  send_trace(A("FILL", id, page), [ZeroB EXCEPT !.frame = <<page, 0>>])
store_script(id, page, word) ==
  send_trace(A("STORE", id, page), [ZeroB EXCEPT !.value = word, !.dv = TRUE])
load_script(id, page) == send_trace(A("LOAD", id, page), ZeroB)
-----------------------------------------------------------------------------
Done == script = <<>>

WriteReg ==
  /\ ~Done /\ Head(script).do \in {"reg_a", "reg_b"}
  /\ IF Head(script).do = "reg_a"
     THEN reg_a' = Head(script).val /\ reg_b' = reg_b
     ELSE reg_b' = Head(script).val /\ reg_a' = reg_a
  /\ script' = Tail(script)

Sleep ==
  /\ ~Done /\ Head(script).do \in {"sleep", "poll"} /\ Head(script).for > 0
  /\ script' = <<[Head(script) EXCEPT !.for = @ - 1]>> \o Tail(script)
  /\ UNCHANGED <<reg_a, reg_b>>

Wake ==
  /\ ~Done /\ Head(script).do = "sleep" /\ Head(script).for = 0
  /\ script' = Tail(script)
  /\ UNCHANGED <<reg_a, reg_b>>

LastPoll == seen \/ Head(script).left = 1

Poll ==
  /\ ~Done /\ Head(script).do = "poll" /\ Head(script).for = 0
  /\ script' = IF LastPoll THEN Tail(script)
               ELSE PollStatus(Head(script).left - 1) \o Tail(script)
  /\ UNCHANGED <<reg_a, reg_b>>

HpsWaits == UNCHANGED <<reg_a, reg_b, script>>

HpsInit == BoardInit /\ script = <<>>
-----------------------------------------------------------------------------
(***************************************************************************)
(* A line that the program puts on the registers is noticed: the load/     *)
(* store queue tells operations apart by their id alone, so the id must    *)
(* differ from that of the line it took last, whoever sent that one.       *)
(***************************************************************************)
LinesAreNoticed ==
  [][reg_a' # reg_a /\ reg_a'.vv => reg_a'.id # trace_id_prev']_hpsVars
=============================================================================
