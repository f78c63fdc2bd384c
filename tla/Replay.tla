------------------------------- MODULE Replay -------------------------------
(***************************************************************************)
(* mem-traces-v2/replay_trace.c: the reference that a run on the board is  *)
(* compared with.  It reads a trace in which the address or the value of   *)
(* an access may come later, in a RESOLVE record with the same id, and     *)
(* commits the accesses in program order from a ring without a full flag.  *)
(*                                                                         *)
(* One step is one record, or one turn of the loop of commit_ready_ops.    *)
(* A field with its valid flag is the value, or None.  Access numbers and  *)
(* the sorted listing are left out; the hash table is a function.          *)
(*                                                                         *)
(* The trace is external: `truth' is what the program meant by each id     *)
(* outstanding.  An id is not reused while it is outstanding, there are    *)
(* fewer accesses outstanding than the ring has slots, and a RESOLVE       *)
(* brings something new; the traces in the repository are like that, with  *)
(* at most eight outstanding.                                              *)
(***************************************************************************)
EXTENDS Integers

CONSTANTS LSQ_QUEUE_SIZE,          \* 16
          Ids, Addrs, Values, None

ASSUME RingAssumption == LSQ_QUEUE_SIZE \in Nat \ {0, 1}

Slots    == 0 .. (LSQ_QUEUE_SIZE - 1)
Accesses == [store : BOOLEAN, addr : Addrs, value : Values]
Entries  == [store : BOOLEAN, vaddr : Addrs \cup {None},
             value : Values \cup {None}, id : Ids]

ASSUME NothingAssumption ==
  /\ None \notin Addrs /\ None \notin Values
  /\ None \notin Accesses /\ None \notin Entries

VARIABLES
  lsq,                     \* [Slots -> Entries, or None outside the ring]
  q_head, q_tail,
  memory,                  \* [Addrs -> Values or None]
  committing,              \* in commit_ready_ops
  truth                    \* [Ids -> Accesses or None]

vars == <<lsq, q_head, q_tail, memory, committing, truth>>

Init ==
  /\ lsq = [i \in Slots |-> None] /\ q_head = 0 /\ q_tail = 0
  /\ memory = [a \in Addrs |-> None]
  /\ committing = FALSE
  /\ truth = [id \in Ids |-> None]

After(i) == (i + 1) % LSQ_QUEUE_SIZE

\* How many slots i is behind the head, and the slots from head to tail.
Rank(i) == (i + LSQ_QUEUE_SIZE - q_head) % LSQ_QUEUE_SIZE
Held    == {i \in Slots : Rank(i) < Rank(q_tail)}

\* Fault: a store without its value will do.
ReadyAddress(e) == e.vaddr # None
Ready(e) == e.vaddr # None /\ e.value # None
-----------------------------------------------------------------------------
(* The loop of main.                                                       *)

\* The trace leaves one slot of the ring free.
Room == Rank(q_tail) + 1 < LSQ_QUEUE_SIZE

Given(there, x) == IF there THEN x ELSE None

\* A LOAD or STORE record, with or without its address and its value.
Enqueue(id, access, v_val, val_val) ==
  /\ ~committing /\ Room /\ truth[id] = None
  /\ truth' = [truth EXCEPT ![id] = access]
  /\ lsq' = [lsq EXCEPT ![q_tail] =
               [store |-> access.store, vaddr |-> Given(v_val, access.addr),
                value |-> Given(val_val, access.value), id |-> id]]
  /\ q_tail' = After(q_tail)
  /\ committing' = TRUE
  /\ UNCHANGED <<q_head, memory>>

\* Fault: a RESOLVE finds only an access without its address.
IncompleteAddress(id) == {i \in Held : lsq[i].id = id /\ ~ReadyAddress(lsq[i])}
Incomplete(id) == {i \in Held : lsq[i].id = id /\ ~Ready(lsq[i])}

\* Fault: the first slot of the array, not the oldest entry.
TargetLowest(id) ==
  CHOOSE i \in Held : ~Ready(lsq[i]) /\ \A j \in Held : ~Ready(lsq[j]) => i <= j
Target(id) ==
  CHOOSE i \in Incomplete(id) : \A j \in Incomplete(id) : Rank(i) <= Rank(j)

Completed(e, t, v_val, val_val) ==
  [e EXCEPT !.vaddr = IF v_val THEN t.addr ELSE @,
            !.value = IF val_val THEN t.value ELSE @]

Resolve(id, v_val, val_val) ==
  /\ ~committing /\ truth[id] # None /\ Incomplete(id) # {}
  /\ \/ v_val /\ lsq[Target(id)].vaddr = None
     \/ val_val /\ lsq[Target(id)].value = None
  /\ lsq' = [lsq EXCEPT ![Target(id)] = Completed(@, truth[id], v_val, val_val)]
  /\ committing' = TRUE
  /\ UNCHANGED <<q_head, q_tail, memory, truth>>

update_architectural_memory(e) ==
  memory' = IF e.store THEN [memory EXCEPT ![e.vaddr] = e.value] ELSE memory

\* Fault: one access at most is committed after a record.
LoopOnce == FALSE
\* The head is looked at again after a commit.
Loop == TRUE

commit_ready_ops ==
  /\ committing
  /\ IF q_head # q_tail /\ Ready(lsq[q_head])
     THEN /\ update_architectural_memory(lsq[q_head])
          /\ q_head' = After(q_head)
          /\ lsq' = [lsq EXCEPT ![q_head] = None]
          /\ truth' = [truth EXCEPT ![lsq[q_head].id] = None]
          /\ committing' = Loop
     ELSE committing' = FALSE /\ UNCHANGED <<lsq, q_head, memory, truth>>
  /\ UNCHANGED q_tail

Next ==
  \/ \E id \in Ids, access \in Accesses, v_val, val_val \in BOOLEAN :
       Enqueue(id, access, v_val, val_val)
  \/ \E id \in Ids, v_val, val_val \in BOOLEAN : Resolve(id, v_val, val_val)
  \/ commit_ready_ops

\* The program runs on, and the trace resolves every access.
Fairness ==
  /\ WF_vars(commit_ready_ops)
  /\ \A id \in Ids : WF_vars(\E v_val, val_val \in BOOLEAN : Resolve(id, v_val, val_val))

Spec     == Init /\ [][Next]_vars
FairSpec == Spec /\ Fairness
-----------------------------------------------------------------------------
(* Properties.                                                             *)

\* The ring, its pointers and the memory keep their types.
TypeOK ==
  /\ lsq \in [Slots -> Entries \cup {None}]
  /\ q_head \in Slots /\ q_tail \in Slots
  /\ memory \in [Addrs -> Values \cup {None}]
  /\ committing \in BOOLEAN
  /\ truth \in [Ids -> Accesses \cup {None}]

(***************************************************************************)
(* The ring, which has no count and no full flag, holds exactly the        *)
(* accesses outstanding, each once and with fields that are missing or     *)
(* those of its own access: none was overwritten on the way round, and no  *)
(* RESOLVE went to the entry of another access.                            *)
(***************************************************************************)
Agrees(e, t) ==
  /\ t # None /\ e.store = t.store
  /\ e.vaddr \in {None, t.addr} /\ e.value \in {None, t.value}
RingHoldsTheOutstanding ==
  /\ \A i \in Held : lsq[i] # None /\ Agrees(lsq[i], truth[lsq[i].id])
  /\ \A i, j \in Held : lsq[i].id = lsq[j].id => i = j
  /\ \A id \in Ids : truth[id] # None => \E i \in Held : lsq[i].id = id

(***************************************************************************)
(* When the tool reads on, or stops at its timestep limit, the head of the *)
(* ring is incomplete: the listing leaves out no store that could retire.  *)
(***************************************************************************)
NothingReadyIsLeft == ~committing /\ q_head # q_tail => ~Ready(lsq[q_head])

\* The k-th slot from the head, and the accesses of the ring in program
\* order, as the program meant them.
Nth(k)      == (q_head + (k - 1)) % LSQ_QUEUE_SIZE
Outstanding == [k \in 1 .. Rank(q_tail) |-> truth[lsq[Nth(k)].id]]

(***************************************************************************)
(* Precise exceptions: the listing is that of a program whose accesses     *)
(* took effect one at a time in program order, with the addresses and      *)
(* values it meant, although the trace brought them in any order.          *)
(***************************************************************************)
Sequential == INSTANCE SequentialMemory WITH todo <- Outstanding
ImplementsSequentialMemory == Sequential!SMSpec

\* Every access of the trace is committed: an older one holds it back only
\* until that one is resolved.
EveryAccessCommits ==
  \A id \in Ids : truth[id] # None ~> truth[id] = None
=============================================================================
