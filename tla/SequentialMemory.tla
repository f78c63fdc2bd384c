-------------------------- MODULE SequentialMemory --------------------------
(***************************************************************************)
(* Precise memory (mem-traces-v2/README.md, "Dependencies when Replaying   *)
(* Traces"): accesses take effect one at a time and in program order,      *)
(* whatever the order in which their addresses and values become known.    *)
(***************************************************************************)
EXTENDS Sequences

CONSTANTS Addrs, Values,
          None                     \* an address that was never stored to

Accesses == [store : BOOLEAN, addr : Addrs, value : Values]

VARIABLES
  todo,                            \* accesses of the program, in its order
  memory                           \* [Addrs -> Values or None]

smVars == <<todo, memory>>

SMInit == todo = <<>> /\ memory = [a \in Addrs |-> None]

Issue(access) == todo' = Append(todo, access) /\ UNCHANGED memory

Commit ==
  /\ todo # <<>>
  /\ memory' = IF Head(todo).store
               THEN [memory EXCEPT ![Head(todo).addr] = Head(todo).value]
               ELSE memory
  /\ todo' = Tail(todo)

SMNext == Commit \/ \E access \in Accesses : Issue(access)

SMSpec == SMInit /\ [][SMNext]_smVars
=============================================================================
