---------------------------- MODULE TraceReplay ----------------------------
(***************************************************************************)
(* mem_test.c trace: the records of a trace file, sent as they are, with   *)
(* a pause after each that is long enough for it to be finished.           *)
(*                                                                         *)
(* The file is external.  As in dgemm3_lsq88.bin, loads take the ids from  *)
(* 0 to LOAD_IDS - 1 in turn and stores those above, a fill has id 0, and  *)
(* the first access to a page comes after its fill.                        *)
(***************************************************************************)
EXTENDS PacedHps

CONSTANT LOAD_IDS                \* ids of loads (8)

VARIABLES
  started,
  load_id, store_id,             \* of the next load and store of the file
  mapped                         \* the pages the file has filled

fileVars == <<load_id, store_id, mapped>>
vars == <<pacedVars, started, fileVars>>

Init ==
  /\ PacedInit /\ started = FALSE
  /\ load_id = 0 /\ store_id = LOAD_IDS /\ mapped = {}

\* mem_test.c's own: it leaves reg_a alone.
clear_status_b == SetB(Sentinel) \o SetB(ZeroB)

replay_trace ==
  /\ Done /\ ~started
  /\ script' = clear_status_b /\ started' = TRUE
  /\ UNCHANGED <<reg_a, reg_b, fileVars>>

Send(record) ==
  /\ Done /\ started
  /\ script' = record \o usleep(STORE_SLEEP)
  /\ UNCHANGED <<reg_a, reg_b, started>>

SendFill(page) ==
  /\ Send(fill_script(0, page))
  /\ page \notin mapped /\ mapped' = mapped \cup {page}
  /\ UNCHANGED <<load_id, store_id>>

SendLoad(page) ==
  /\ page \in mapped
  /\ Send(load_script(load_id, page))
  /\ load_id' = (load_id + 1) % LOAD_IDS
  /\ UNCHANGED <<store_id, mapped>>

SendStore(page, word) ==
  /\ page \in mapped
  /\ Send(store_script(store_id, page, word))
  /\ store_id' = IF store_id = MAX_ID THEN LOAD_IDS ELSE store_id + 1
  /\ UNCHANGED <<load_id, mapped>>

Runs == (WriteReg \/ Sleep \/ Wake \/ HpsWaits) /\ UNCHANGED <<started, fileVars>>

Next ==
  /\ HardwareEdge
  /\ \/ replay_trace \/ Runs
     \/ \E page \in Vaddrs : SendFill(page) \/ SendLoad(page)
     \/ \E page \in Vaddrs, word \in Values : SendStore(page, word)

Spec == Init /\ [][Next]_vars
=============================================================================
