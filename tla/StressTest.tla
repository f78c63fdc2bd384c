----------------------------- MODULE StressTest -----------------------------
(***************************************************************************)
(* stress_test.c: stores, and loads that are checked against what was      *)
(* stored, each preceded by a fill of its page because the TLB is small.   *)
(* The seven test patterns are particular sequences of do_store and check; *)
(* here any sequence is taken.                                             *)
(***************************************************************************)
EXTENDS PacedHps

\* Two ids take turns at least, and the first is not what reset leaves (15).
ASSUME IdAssumption ==
  MAX_ID \in Nat \ {0, 1} /\ 1 .. MAX_ID \subseteq Ids /\ NoId # 1

VARIABLES
  g_id,          \* the next trace id
  expected,      \* [Vaddrs -> word last stored, or None]
  checking,      \* the page being loaded, or None
  verdict        \* of the last check, "none" once a store was begun

vars == <<pacedVars, g_id, expected, checking, verdict>>

\* Fault: ids are handed out from 1 to 1.
nid_stuck(id) == 1
nid(id) == IF id >= MAX_ID THEN 1 ELSE id + 1

\* Fault: the page is filled only when it was never stored to.
fill_page_once(page) ==
  IF expected[page] = None THEN fill_script(g_id, page) \o usleep(FILL_SLEEP)
  ELSE <<>>
\* The TLB is never trusted to hold the page.
fill_page(page) == fill_script(g_id, page) \o usleep(FILL_SLEEP)

\* Fault: the program goes on at once.
StorePauseNone == <<>>
StorePause == usleep(STORE_SLEEP)

Init ==
  /\ PacedInit
  /\ g_id = 1
  /\ expected = [p \in Vaddrs |-> None]
  /\ checking = None /\ verdict = "start"

main ==
  /\ Done /\ verdict = "start"
  /\ script' = nop_script \o usleep(FILL_SLEEP) /\ verdict' = "none"
  /\ UNCHANGED <<reg_a, reg_b, g_id, expected, checking>>

do_store(page, word) ==
  /\ Done /\ checking = None /\ verdict # "start"
  /\ script' = fill_page(page) \o clear_status_script
                 \o store_script(nid(g_id), page, word) \o StorePause
  /\ g_id' = nid(nid(g_id))
  /\ expected' = [expected EXCEPT ![page] = word]
  /\ verdict' = "none"
  /\ UNCHANGED <<reg_a, reg_b, checking>>

do_load(page) ==
  /\ Done /\ checking = None /\ expected[page] # None
  /\ script' = fill_page(page) \o clear_status_script
                 \o load_script(nid(g_id), page) \o PollStatus(POLLS)
  /\ g_id' = nid(nid(g_id))
  /\ checking' = page /\ verdict' = "none"
  /\ UNCHANGED <<reg_a, reg_b, expected>>

\* The result of the check is the status at the last poll.
check ==
  /\ Poll /\ LastPoll
  /\ verdict' = IF ~seen THEN "timeout"
                ELSE IF ret_data = expected[checking] THEN "pass" ELSE "fail"
  /\ checking' = None
  /\ UNCHANGED <<g_id, expected>>

Runs == /\ WriteReg \/ Sleep \/ Wake \/ (Poll /\ ~LastPoll) \/ HpsWaits
        /\ UNCHANGED <<g_id, expected, checking, verdict>>

Next ==
  /\ HardwareEdge
  /\ \/ main \/ Runs \/ check
     \/ \E page \in Vaddrs : do_load(page)
     \/ \E page \in Vaddrs, word \in Values : do_store(page, word)

Spec == Init /\ [][Next]_vars
-----------------------------------------------------------------------------
(***************************************************************************)
(* The program reports neither a failure nor a timeout: through register   *)
(* writes, trace-id edge, fill, translation, queue, memory and status, a   *)
(* load returns the word last stored to its page and returns in time.      *)
(***************************************************************************)
AllTestsPass == verdict \notin {"fail", "timeout"}
=============================================================================
