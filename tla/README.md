# Verification of the CompArcMem memory hierarchy

CompArcMem (`src/MemorySystem/`) is a memory hierarchy for the DE10-Nano written in
SystemVerilog. Memory operations come from a trace, are written by the ARM core (HPS)
into two PIO registers, and go through a load/store queue, a data TLB, a write-back L1
cache, a write-back L2 cache and an Avalon-MM master to the HPS DDR3. This directory
models the hierarchy in TLA+, checks the models with TLC on small instances and proves
the main results with TLAPS for every instance.

## 1. The system

| Part | Source | State | Operations | Talks to |
|---|---|---|---|---|
| Avalon master | `avalon_mem_master.sv` | six-state machine, beat counter, latched request, line being assembled, settle counter, registered strobes | one edge in each state: take a read or a write, issue a beat, wait for a beat, finish | L2 by request and pulse; the bridge by the Avalon handshake |
| Data TLB | `dtlb.sv` | `valid`/`vpn`/`ppn` arrays, pseudo-LRU tree, registered answer | fill, lookup, both at once, reset | load/store queue |
| L1 data cache | `L1_Cache.sv` | 2-way arrays, victim bit per set, two MSHRs with a queue of up to four operations each, output registers | one edge: issue a miss, take a refill (replay, install, write back, answer), serve a load or a store | load/store queue by pulses without a ready signal; L2 by a fetch port and a write-back port |
| L2 cache | `L2_copy.sv` (tree PLRU), `L2_FIFO.sv` and `L2_lru.sv` (FIFO) | 4-way arrays, four MSHRs, two input registers, deferred answer and write-back, eviction FIFO of two | one edge: answer, refill, look up, absorb a write-back, drain evictions, issue a read | L1; the Avalon master or a simulated memory |
| Load/store queue | `lsq.sv` | two circular queues, pending translation, pending cache read | take an operation, apply an answer of the TLB or of L1, rerun, retire | trace PIO, TLB, L1 |
| Hierarchy tops | `top_with_L1.sv`, `True_TOP.sv`, `transfer_quatus/DE10_NANO_SoC_GHRD.v` | sticky status register | wiring; set and clear the status bits | all of the above, the HPS |
| Programs on the HPS | `mem_test.c`, `stress_test.c`, `tlb_evict.c` and others in `hps_mem_test/` | the next trace id | write a record in two registers, pause, poll and clear the status | the PIO registers |
| Trace tools | `mem-traces-v2/replay_trace.c`, `parse_trace.c` | ring of outstanding accesses, memory | enqueue, resolve by id, commit in order | files only |
| Older parts | `llcd.sv`, `temp_lsq.sv`, `top.sv`, `mem_bus.sv`, `dummy_L2.sv` | | | not part of `True_TOP.sv`, except `dummy_L2.sv` as a stand-in in test tops |

What is hard here. Everything runs on one clock, so the interleavings are those of
*events on the same edge* and of *latencies*: a refill on the edge of a hit, a fill on
the edge of a lookup, a strobe seen one cycle after it was raised, an answer without an
address that is paired by order only, a pulse that nobody holds. No interface between
the load/store queue, L1 and L2 has a ready signal, so every resource limit (two MSHRs,
four queue slots, two pending evictions) is a place where something is silently dropped.
Below the Avalon master writes are posted and a later read can overtake them. The
hazards are listed one by one, at their lines, in `PROJECT.json`.

What makes each part correct:

* Avalon master: whole lines, atomically, although they travel as eight beats; a read
  returns what was last written; a write reported done is in the SDRAM; every request
  ends.
* TLB: a partial map from pages to frames; a fill never makes a page ambiguous and never
  throws away more than it must; the victim is not what was just used.
* L1: one copy of a block; no refill over newer data; no dirty line lost; a fetch never
  races the write-back of the same line; to a requester that waits it is a memory.
* L2: the same, and every fetch answered, including the path to a master that serves one
  request at a time.
* Load/store queue: valid entries and pointers agree; a line is taken once; a request
  carries the translation and the word of its own operation; L1 is not asked again before
  it has answered.
* A program on the HPS: its register writes are seen as whole operations, each once; when
  it goes on, nothing of the last operation is in flight; a load gives what was stored.
* Reference simulator: out-of-order records, in-order effects.

## 2. Modules

| Module | What it is |
|---|---|
| `LineMemory` | abstract: a memory of lines that serves one request at a time |
| `AvalonMaster` | `avalon_mem_master.sv`, and externally the bridge and SDRAM it drives |
| `AvalonMasterProofs` | its theorems |
| `TranslationBuffer` | abstract: a partial map with a registered lookup |
| `Dtlb` | `dtlb.sv` |
| `MCDtlb` | `Dtlb` with two histories: how long each slot has been idle, and which slots a run of evictions has not rewritten |
| `DtlbProofs` | its theorems |
| `L1` | `L1_Cache.sv`, one clock edge as one action |
| `MCL1` | `L1` under any request and any answer in any cycle |
| `WordMemory` | abstract: a memory of words that answers one request at a time |
| `L1Blocking`, `MCL1Blocking` | `L1` between a requester that waits and an in-order level below |
| `L1Proofs` | the theorems about `L1` and `L1Blocking` |
| `LineStore` | abstract: what L1 relies on, a store of lines with write-backs and answers |
| `L2` | `L2_copy.sv`, one clock edge as one action, the replacement policy as constant operators |
| `Replacement` | the policies: tree pseudo-LRU (`L2_copy.sv`), FIFO (`L2_FIFO.sv`, `L2_lru.sv`) |
| `L2Client`, `MCL2Client` | `L2` with the simulated memory under the traffic that L1 makes |
| `L2Avalon`, `MCL2Avalon`, `MCL2Burst` | the same with `USE_AVALON`, over `LineMemory`, which `AvalonMaster` is proved to implement |
| `L2Proofs` | the theorems about `L2`, about `L2Client`, and about `L2Avalon` at the driver's pace |
| `Lsq` | `lsq.sv`, one clock edge as one action, with any trace line and any answers |
| `LsqProofs` | its theorems |
| `Board` | the trace registers, `Lsq`, an instance of `Dtlb`, and the sticky status (`DE10_NANO_SoC_GHRD.v`, `top_with_L1.sv`) |
| `Hps` | a program on the HPS: a script of register writes, pauses and polls, one at a time, while the clock runs |
| `PacedHps` | `Hps` over `WordMemory`, with pauses that the hardware can keep up with |
| `StressTest`, `MCStressTest` | `stress_test.c`: stores and checked loads in any order |
| `StressTestProofs` | its theorems: the program with registers, queue and TLB |
| `TraceReplay`, `MCTraceReplay` | `replay_trace` of `mem_test.c`: the records of a file as they are |
| `SequentialMemory` | abstract: accesses take effect one at a time in program order |
| `Replay` | `mem-traces-v2/replay_trace.c`: the ring, records that resolve earlier ones, in-order commits |
| `ReplayProofs` | its theorems |
| `Arithmetic` | least and greatest elements, powers of two, positions in a circular buffer, for the proofs |

How state and actions correspond to the code. A register of the code is a variable of
the same name. An `always_ff` block is one action whose primed variables are the
non-blocking assignments; where two parts of a block assign the same register the later
one wins, and the definition says so (`L1!NextLines`, `L1!NextLru`). Combinational wires
are operators. Data is abstract: a word, a line, a page is a member of a small set; a
tag together with its set is the block itself; a byte address inside a line is a beat or
an offset. Debug outputs and registers nobody reads are left out. A C program is a sequence of bus accesses: what a
routine will do is put in `script` when it is called, and each later step is one clock
edge with or without the next access. Every definition's
lines are in `PROJECT.json` under `map`; definitions commented `Fault:` are deliberate
bugs that show that a property can fail; they are used by no specification.

## 3. What the runs check

| Run | Instance | Shows |
|---|---|---|
| `avalon` | 2 lines of 2 beats, 2 words, settle 5, commit delay 6 | type; a read never returns a stale word; idle means durable; the master implements `LineMemory`; reads and writes finish |
| `dtlb` | 4 slots, 5 pages, 2 frames; pages symmetric | a page in one slot; implements `TranslationBuffer`; a fill is seen by every later lookup; the victim has survived `DEPTH` accesses to other slots; a page is evicted only when all slots are taken; as many fills as there are slots, one after the other into a full TLB, replace all of it |
| `l1` | 3 blocks in one set, 2 ways, any request and answer | one copy; misses absent; no fetch of what is being evicted; dirty lines handed down; misses sent |
| `l1_blocking` | 3 blocks of two words in one set; three words are stored to | implements `WordMemory`; answers everything |
| `l2` | 3 blocks in a set of 2 ways, FIFO policy, L1 with two misses, latency 1 | MSHRs distinct; the fetch that is out is tracked; one copy; implements `LineStore`; every fetch answered |
| `l2_plru` | 5 blocks in a set of 4 ways, pseudo-LRU, latency 3 | implements `LineStore`; what was just installed is not the next victim |
| `l2_paced` | 4 blocks, 2 ways, Avalon mode, one operation at a time | no request into a busy master; a read the L2 waits for is with the master; implements `LineStore`; every fetch answered |
| `l2_prompt` (violation) | 3 blocks, Avalon mode, no pause between operations | a read is issued into a master that is about to be busy and is lost |
| `l2_burst` (violation) | 2 sets of 2 ways, two misses, every victim dirty | two evictions of one edge take the same FIFO entry; the comment says the FIFO prevents that |
| `stress` | 2 queues of 2 slots, TLB of 2, 3 pages of one word, 2 words, ids 1 and 2, caches that take up to one cycle extra | the queues are contiguous; L1 is never asked twice; nothing in flight between two routines; no test fails or times out; every request is the program's; every line is noticed |
| `trace_fills` (violation) | 2 pages, load ids 0 and 1, store ids 2 and 3, fills of id 0 | a fill and a load of the same id in a row are one operation to the queue |
| `replay` | ring of 3, 3 ids, one address, 2 values | the ring holds the outstanding accesses; nothing ready is left; implements `SequentialMemory`; every access is committed |

`LineStore` says that the store changes by what L1 hands down and by nothing else. The
refinement mapping finds the newest version of a line on its way from L1's port to the
memory: port, input register, deferred write-back, arrays, eviction FIFO, the master's
port, memory. Losing, overwriting or mixing up a line anywhere on that way changes the
store without a write-back and violates the refinement.

What the L2 runs depend on. The L2 is right for L1's traffic and not for any traffic: it
answers a hit that meets a refill one cycle later and looks at nothing else in that
cycle, it drops a miss that finds its MSHRs taken, and it has one place for a deferred
write-back. L1's two MSHRs keep those limits from being reached, and the runs check it
only for two. In Avalon mode it also depends on the driver's pace: the smoke test of
`mem_test.c` waits a millisecond after every operation (`l2_paced`); a requester that
waits for its answer only (`l2_prompt`) reaches a state in which the L2 waits for ever
for a read that the master never saw.

What the board runs depend on. The load/store queue has no ready signal from L1, takes any
answer for the one it waits for, and translates the line on the registers rather than the
entry's address. It works because a program leaves it time: `StressTest` takes any
sequence of the stores and checks of `stress_test.c`, with pauses that `PaceAssumption`
relates to the hardware's latency (the code pauses for 300 and 1500 microseconds and polls
200 times, at 20 nanoseconds a cycle), and shows that under it a routine ends with
queue, TLB and caches idle; `StressTestProofs` proves it for all pauses and sizes. The caches are `WordMemory`, which is what `IsWordMemory` proves
L1 to be, but only to a requester that waits; so that the queue waits is checked
(`RequesterWaits`) and proved (`StressWaits`), not assumed. Such a program never has two
operations in a queue: that a full queue, or an enqueue on the edge of a retirement, keeps
the queues contiguous is what `ContiguousQueues` proves, for any input. The program knows where a page was filled by filling
it before each access, because the TLB may have thrown it out; the mutant that trusts the
TLB times out. `trace_fills` is the contrast: in the trace files every fill has id 0, and
next to an access of id 0 one of the two is not noticed.

What the simulator depends on. `replay` takes every order in which a trace can bring
addresses and values, and assumes of the trace what its ring cannot check: an id is not
reused while it is outstanding and one slot stays free. The traces in the repository keep
both, with at most eight accesses outstanding of sixteen.

Disagreements that no run shows. Some were found while modelling and stay in the code; the
first three were runs once and gave way to the board's:

* A store miss that finds both MSHRs taken is forgotten; `L1_Cache.sv:432-433` says it
  stalls.
* The tail of an MSHR wraps to 0 with the fourth operation; `L1_Cache.sv:21` says it
  counts them. Neither is reached by a requester that waits.
* The L2 throws out lines that L1 holds; `src/README.md:46` says the caches are inclusive.
* `clear_tlb.c:121-122` says that after 16 fills no earlier translation is left, and
  `tlb_evict.c:134` that its target should be gone. It is so for a TLB that was full
  (`EvictionsGoRound`); as many fills as there are free slots, and 16 more, always clear it.
  In a part-full TLB the tree's walk starts where the fills of the free slots left it and
  can come back to one of those. If from 2 to 14 pages had been filled since reset, one of
  them survives the 16 fills of `clear_tlb.c`; if 1, 2, 3, 5, 7 or 11 had been filled before
  the target of `tlb_evict.c`, the target survives. With four slots it takes two pages: the
  fills go to 2, 3, 0 and 2 again, and the page in slot 1 stays.
* The queue ignores an operation without an address (`lsq.sv:388`); `lsq_tb.sv:463-469`
  and `src/README.md:90-96` expect it to be queued and resolved later, so the `_real`
  traces cannot be replayed on the board. A RESOLVE does not give a store its value.
* `manual_test.c:25-26` asks for a store and then a load that both carry id 1; the load
  is dropped.
* `stress_test.c:330-333` writes a NOP "to initialize trace_id_prev". It has no address, so
  the queue ignores it (`lsq.sv:387-388`), and a program whose first id is the last one of
  the program before it loses its first line. `stress` starts from reset.
* `manual_test.c:186-191` keeps a FIFO of the last 16 pages it filled, to "match" the TLB,
  and does not fill a page on it again; the TLB evicts by the pseudo-LRU tree, and also
  starts with what the program before left, so a page on the list may have been evicted.
  `stress_test.c`, which is modelled, fills a page before each access.

Why the bounds are enough. Two beats show every transition of the beat counter (first,
not last, last); a commit delay one longer than the settle period is the tight case of
the assumption on them, and six is long enough that a master that does not wait reads a
line before its words have landed; two lines are needed to mix two requests. Four TLB
slots are the fewest for which the tree is more than a root, and five pages fill them
and replace. Three blocks for two ways make L1 evict and fetch again; one set is enough
because sets share only the MSHRs and the ports, and three blocks for two MSHRs exhaust
those. In `l1` the queue has two slots, the smallest that merges; four, the code's, in
the others. Words beyond two add nothing: the code never computes with data. In the L2
runs one block's contents vary and the others' stay zero (`Varied`): a lost or misplaced
line is noticed if it is the varying one, and which block varies does not matter. The
latency decides which events meet on an edge: at one a write-back meets the refill of
its set, which is what the collision logic is for; three is the default of the code. One
block more than there are ways makes the L2 evict what L1 may still hold or ask for
again. `l2_plru` has one miss at a time, so that four ways stay within reach; what two misses
and a write-back of one edge make of the tree is in `PlruSparesInstalled`. `l2_burst` needs two sets, because a collision in one set is deferred.
A queue of two slots is full with one entry, so that wrap-around and fullness are reached
by any second operation; three pages for two TLB slots make fills evict; one
id more than the reset's is the least with which a program can alternate; two words tell a
stale answer from the right one. The pauses are the shortest that `PaceAssumption` allows,
so the checks hold for every longer one the code makes. A ring of three slots holds two
accesses, the least in which one can wait for an older one; three ids let one be reused.

Fairness. `avalon` assumes weak fairness of `ObligingEdge`, an edge on which the slave
neither stalls nor withholds an answer: the clock runs and the bridge does not stall for
ever. `l1` assumes that the clock runs (`WF` of `L1Next`), nothing about the answers.
`l1_blocking` assumes that the clock runs and that the level below answers when it can.
`l2` and `l2_plru` assume that the clock runs; `l2_paced` that it runs and that the
master, whose termination the `avalon` run shows, finishes what it took. `replay` assumes
that the program runs on (`WF` of `commit_ready_ops`) and that the trace resolves each
access it opened, which all traces in the repository do. `stress` has safety properties
only: that a load is answered in time is one of them, because the polls are counted. The violation
runs state safety properties and use no fairness; they switch deadlock checking off,
because a history counter is bounded in L1's and the client has nothing left to do at
the end of a burst in the others.

## 4. What is proved

All theorems hold for every value of the constants that satisfies the named assumptions.

* `AvalonMasterProofs`: `TypeCorrect`, `FreshReads`, `DurableWrites`, `Refinement`.
  The assumption that matters is `SettleAssumption`: the fabric commits a write at most
  one cycle later than the settle counter counts. The invariant adds to the types: which
  strobe and which answer may be up in which state (`PulseInv`, `StrobeInv`,
  `AnswerInv`); the beats assembled so far are the SDRAM's (`ReadInv`); the beats sent
  so far are the line's (`WriteInv`); how old a word in flight is at least, by state and
  beat (`FlightInv`). The last is what makes the settle period sufficient; the refinement
  is then a case split over the actions.
* `DtlbProofs`: `TypeCorrect`, `PagesAreUnique`, `Refinement`, `ForgetsOnlyWhenFull`,
  `VictimsWereIdle`, `EvictionsGoRoundAll`, for any number of slots that is a power of two.
  Uniqueness holds because a fill writes the slot of its page if there is one. The other
  proofs extend `MCDtlb`, whose histories are what they are about, and rest on lemmas on
  the tree: the walk ends at the slot that all its nodes point to (`WalkIs`,
  `TreePointsToVictim`, by the least counterexample over the depth), and an access turns
  all nodes over its slot away from it and only one of them, the lowest that both share,
  towards any other slot. So at most as many nodes point at a slot as it has been idle for
  accesses, and the victim, at which all point, was idle for as many as the tree is deep.
  In a round of evictions the two halves under a node hold numbers of spared slots that
  differ by at most one, and the node points to the larger: when none is spared below it,
  none is spared at all.
* `L1Proofs`: `TypeCorrect`, `UniqueCopies`, `AbsentMisses`, `FetchIsNotEvicted`,
  `NothingDirtyIsLost`. Uniqueness is not inductive alone: a refill could install a
  second copy if the block were already there, so the invariant carries that a block in
  an MSHR is in no way and in no other MSHR, and that a line sits in its block's set.
  Two lemmas say what one edge does to tags (`TagStep`) and to MSHRs (`MshrStep`); every
  conjunct follows from them. `IsWordMemory` proves that `L1Blocking` implements
  `WordMemory`. Its invariant is a list of the phases of the one request (none; at the
  port; in an MSHR; being fetched; coming back; answered), what each register holds in
  each, and that a clean line agrees with what is beneath it: the line on the write-back
  port if it is there, the memory otherwise. Four lemmas state what an edge of L1 does in
  the situations that are left (`QuietEdge`, `StoreEdge`, `MissEdge`, `RefillEdge`), and
  one lemma for each phase shows that the word a program would read changes by its store
  alone.
* `L2Proofs`: `TypeCorrect`, `MissesAreDistinct`, `AnswersFindTheirMiss`, for `L2Spec`,
  that is for arbitrary inputs, sizes and replacement policy. The invariant is the
  conjunction of the three properties: that an answer finds its miss rests on
  `mem_pend_id` being valid while a read is out, so that a miss, which takes a free
  register, never takes that one; that misses stay distinct rests on the duplicate check
  seeing every register that is valid after the edge, because a refill only frees.
  `MshrStep` states what an edge does to one register and is all the two proofs use.
  Its second part: `BlocksAreUnique`, `IsLineStore`, for `L2Client`'s `Spec` in
  simulation, that is with the simulated memory, under one or two misses of L1
  (`L1SizeAssumption`) and its write-backs; sizes, latency and replacement policy are
  arbitrary. The lines of the cache over those of the memory are regarded as one store
  (`Value`), and a refill or a write-back of an absent line is the same change of it
  whatever it displaces (`InstallLine`, `OverwriteLine`). The invariant `CInv` adds to the
  invariant above that a request is in one place only (`InOnePlace`: the port, stage 1, a
  miss register, the answer port); that two blocks at most are wanted (`FewWanted`), so
  that a write-back which is put off because a refill takes the arrays never meets the next
  one; that no write-back overtakes a fetch of its block (`Downward`); and that the store,
  with the write-backs on their way, is the abstract one (`OneStore`). One lemma says what
  an edge makes of the arrays, one what L1 does meanwhile, and `IsLineStore` puts them
  together step by step. TLC checked `CInv` on the instance of `l2` first, where both
  put-off write-backs and deferred hits happen.
  `PlruSparesInstalled`, for `L2Client` with the tree policy of `Replacement` and four
  ways, rests on `SparesInstalled`, a property of the policy's operators alone: the FIFO
  policy does not have it, and no theorem states it there.
  Its third part: `MasterIsNeverOverrun`, `ReadsAreServed`, `PacedBlocksAreUnique`,
  `AvalonIsLineStore`, for `PacedSpec`, that is for the L2 in Avalon mode
  (`USE_AVALON`, a hypothesis) over a memory of lines that serves one request at a time, under
  a requester that starts an operation when the last has left the hierarchy. Sizes and
  replacement policy are arbitrary. The invariant `AInv` says where the one operation is:
  nowhere (`Rest`), on L1's port (`Missed`), on its way to the arrays (`Asking`,
  `Looking`), in a miss register (`Recorded`), in the master (`Fetching`), coming back
  (`Answering`); that at most two lines are on their way down, L2's victim ahead of L1's;
  that nothing is ever deferred; and that a clean line agrees with what is beneath it. An
  edge does one of three things to the arrays (`InstallStep`, `OverwriteStep`,
  `StillStep`), and with them one lemma for each phase shows both that the invariant
  holds and that the edge is a step of `LineStore`. `l2_prompt` shows that the pace cannot
  be left out.
* `LsqProofs`: `TypeCorrect`, `ContiguousQueues`, for `LsqSpec`, that is for any trace
  line and any answer of TLB and L1 in every cycle, RESOLVE and reruns included, and any
  queue size. Contiguity needs only itself: an edge that enqueues a slot and retires
  another moves both pointers, and `OccupiedMoves` says what that does to the slots
  between them; what the fields of an entry hold is irrelevant, because no part of the
  block but these two touches a valid bit.
* `StressTestProofs`: `StressPasses`, `StressWaits`, `StressIsQuiet`, `StressRequests`,
  `StressLinesAreNoticed`, `StressQueuesAreContiguous`, for `StressTest`'s `Spec`, with any
  queue size, any TLB size that is a power of two, any pages, words and ids, any pauses and
  any latency, related by `PaceAssumption`, and a program of any length. `AllTestsPass` is
  far from inductive. The invariant `PInv` says at which position of its script the program
  is, what the registers show there, and in which stage the operation may be: `Quiet`,
  `Filling`, `Asked`, `Looked`, `Ready`, `Serving`, `Answering`, `Retiring`, each of which
  says what queue, TLB port and caches hold. One lemma for each stage says what an edge
  makes of it (`QuietStep` to `LeaveStep`), and one for each position what the program
  does meanwhile (`AtFillWordStep` to `AtPollStep`). What makes it inductive is `Within`: during
  an access a stage also has the least number of cycles that the script still leaves, be it
  in a pause or in the polls to come, and each edge uses one of them (`FlightStep`). With
  none left the access is over (`NoTimeLeft`), so that the last poll sees the answer, the
  next clearing of the status meets no late one, and a fill meets no lookup. That a line is
  noticed needs that the last id taken is never the next one handed out; that a request
  carries the right address, that the line on the registers stays while its lookup runs.
* `ReplayProofs`: `TypeCorrect`, `RingIsExact`, `LoopIsComplete`, `ReplayIsSequential`,
  for any ring and any sets. The invariant is the conjunction of the first three; `Room`
  is what keeps the tail from meeting the head. The refinement maps the ring to the
  sequence of what the program meant by its entries: enqueueing appends, a RESOLVE changes
  nothing because the entry it completes agrees with its access, a commit takes the head,
  whose fields are the access's because none is missing. `Arithmetic` holds the facts on
  positions in a ring, which both modules use.

The types are proved for every module; TLC checks them where a counter could leave its
range (`avalon`). `TypeCorrect` of the others rests on no run.

Only model-checked: liveness (`ReadCompletes`, `WriteCompletes`, `MissesAreRequested`,
`RequestsAreAnswered`, `FetchesAreAnswered`, `EveryAccessCommits`), which the prover does
not cover. The violations are counterexamples, which TLC alone finds.

## 5. Not modelled, and why

* All parts in one run: a composition of queue, TLB, L1, L2 and master is out of TLC's
  reach. It is checked and proved in layers, each over the abstraction the next is proved
  to implement: the programs over `WordMemory`, which L1 is proved to implement; the L2 over
  `LineMemory`, which the master is proved to implement, and itself proved to be a
  `LineStore` at the driver's pace (with the simulated memory, under two misses as well).
* Requests to L1 while one is outstanding: L1 and L2 lose operations then (see the
  hazards), no program of the repository makes them, and there is nothing they promise.
* A translation that misses, and RESOLVE: in `Lsq` and its proofs; no program resolves
  one, so no run has them.
* Older and stand-in parts (`llcd.sv`, `temp_lsq.sv`, `top.sv`, `mem_bus.sv`,
  `dummy_L2.sv`): not on the path of `True_TOP.sv`.
* Trace printing, the sorted listing of `replay_trace.c`, manual and probing tools,
  deployment scripts: sequential programs without state of their own.
* `quartus/`, `transfer_quatus/soc_system/`, `hps_isw_handoff/`, `spl_bsp/`: generated and
  vendored. They are most of the C code of the repository: six copies of Altera's DDR
  calibration (`sequencer.c`, 10885 lines each) and the preloader. The design itself is
  SystemVerilog, and the C written for it is a few small programs, so the share of C
  lines that the modules stand for stays small however much of the design they cover.
* A register write in two halves. `Hps` writes the 64 bits of a register on one edge:
  `pio64_out.sv` takes all 64 from one write and has no byte enables, so the C code's
  `*reg_a = a` is right only as one 64-bit transfer, and whether the compiler and the
  bridge make it one is not in the repository.
* Reset in the middle of an operation, except in the TLB: every part starts from its
  reset values, and what the bridge does with a beat in flight across a reset is not
  in the repository.

## 6. Plan

1. Done: Avalon master, TLB, L1 with their proofs.
2. Done: `L2` with its policies, `L2Client`, `L2Proofs`; `L2Avalon`, the L2 over what
   `AvalonMaster` is proved to be.
3. Done: `Lsq` and its proofs; `Board`, `Hps`, `StressTest`, `TraceReplay`: the programs
   on the registers, the queue and the TLB.
4. Done: `Replay`, proved to be sequential.
5. Done: `L1Blocking` implements `WordMemory`, the paced L2 is a `LineStore`, the
   histories of the TLB's tree, and the stress test on queue, TLB and registers, for every
   instance.
6. Done: `L2Client` has one copy and implements `LineStore` under two misses, and the tree
   policy spares the line just installed, for every instance.
