-------------------------------- MODULE Dtlb --------------------------------
(***************************************************************************)
(* dtlb.sv: the fully associative data TLB with tree pseudo-LRU            *)
(* replacement.  Edge(...) is one posedge of clk with rst_n high; a lookup *)
(* and a fill may be presented on the same edge and both see the arrays as *)
(* they were before it.  Reset is the asynchronous rst_n.                  *)
(***************************************************************************)
EXTENDS Naturals, FiniteSets

CONSTANTS NUM_ENTRIES, DEPTH,        \* parameter and its $clog2
          Pages, Frames, Offsets,    \* vpn, ppn and page-offset values
          ZeroPage, ZeroFrame,       \* their all-zeroes members
          NoFrame, ZeroPaddr         \* see TranslationBuffer

\* Lines 43-52 of the code: a power of two, at least two.
ASSUME EntriesAssumption ==
  /\ NUM_ENTRIES \in Nat \ {0, 1} /\ DEPTH \in Nat \ {0}
  /\ NUM_ENTRIES = 2^DEPTH
ASSUME PagesAssumption ==
  ZeroPage \in Pages /\ ZeroFrame \in Frames /\ NoFrame \notin Frames

Entries        == 0 .. (NUM_ENTRIES - 1)
Nodes          == 0 .. (NUM_ENTRIES - 2)
PLRU_LEAF_BASE == (NUM_ENTRIES \div 2) - 1

VARIABLES valid, vpn, ppn, plru_tree, lookup_hit_o, lookup_paddr_o

vars == <<valid, vpn, ppn, plru_tree, lookup_hit_o, lookup_paddr_o>>

\* The scans over the entries keep the last match and the first free slot.
Matches(page) == {i \in Entries : valid[i] /\ vpn[i] = page}
Invalid       == {i \in Entries : ~valid[i]}
LastOf(S)     == CHOOSE i \in S : \A j \in S : j <= i
FirstOf(S)    == CHOOSE i \in S : \A j \in S : i <= j

any_hit(page) == Matches(page) # {}
hit_idx(page) == LastOf(Matches(page))

(***************************************************************************)
(* Tree pseudo-LRU.  Node n has children 2n+1 and 2n+2; a 0 points left, a *)
(* 1 right.  Indices are IDX_BITS wide, hence the modulus.                 *)
(***************************************************************************)
IdxBits(n) == n % NUM_ENTRIES

\* One level down from node c, towards the side the tree points to.
Descend(tree, c) == IdxBits(IF tree[c] = 1 THEN 2 * c + 2 ELSE 2 * c + 1)

\* The nodes visited on the way from the root to a leaf-level node.
Walk(tree) ==
  LET curr[d \in 0 .. (DEPTH - 1)] ==
        IF d = 0 THEN 0 ELSE Descend(tree, curr[d - 1])
  IN curr

victim_idx(tree) ==
  LET leaf == Walk(tree)[DEPTH - 1]
      pair == 2 * IdxBits(leaf + NUM_ENTRIES - PLRU_LEAF_BASE)
  IN IdxBits(IF tree[leaf] = 1 THEN pair + 1 ELSE pair)

\* Fault: the leaf is left pointing at the slot just used.
plru_update_inverted(tree, idx) ==
  LET node[d \in 0 .. (DEPTH - 1)] ==
        IF d = 0 THEN PLRU_LEAF_BASE + (idx \div 2)
        ELSE (node[d - 1] - 1) \div 2
  IN [n \in Nodes |->
        IF n = node[0] THEN idx % 2
        ELSE IF \E d \in 1 .. (DEPTH - 1) : n = node[d]
        THEN IF \E d \in 1 .. (DEPTH - 1) : n = node[d] /\ node[d - 1] = 2 * n + 2
             THEN 0 ELSE 1
        ELSE tree[n]]

plru_update(tree, idx) ==
  LET node[d \in 0 .. (DEPTH - 1)] ==      \* from the leaf, d edges up
        IF d = 0 THEN PLRU_LEAF_BASE + (idx \div 2)
        ELSE (node[d - 1] - 1) \div 2
  IN [n \in Nodes |->
        IF n = node[0] THEN 1 - (idx % 2)
        ELSE IF \E d \in 1 .. (DEPTH - 1) : n = node[d]
        THEN IF \E d \in 1 .. (DEPTH - 1) : n = node[d] /\ node[d - 1] = 2 * n + 2
             THEN 0 ELSE 1
        ELSE tree[n]]

\* Faults: a held page is given a second slot; free slots are not looked for.
fill_write_idx_blind(page) ==
  IF Invalid # {} THEN FirstOf(Invalid) ELSE victim_idx(plru_tree)
fill_write_idx_evicting(page) ==
  IF any_hit(page) THEN hit_idx(page) ELSE victim_idx(plru_tree)

fill_write_idx(page) ==
  IF any_hit(page) THEN hit_idx(page)
  ELSE IF Invalid # {} THEN FirstOf(Invalid)
  ELSE victim_idx(plru_tree)

-----------------------------------------------------------------------------
Init ==
  /\ valid = [i \in Entries |-> FALSE]
  /\ vpn = [i \in Entries |-> ZeroPage] /\ ppn = [i \in Entries |-> ZeroFrame]
  /\ plru_tree = [n \in Nodes |-> 0]
  /\ lookup_hit_o = FALSE /\ lookup_paddr_o = ZeroPaddr

Reset ==
  /\ valid' = [i \in Entries |-> FALSE]
  /\ vpn' = [i \in Entries |-> ZeroPage] /\ ppn' = [i \in Entries |-> ZeroFrame]
  /\ plru_tree' = [n \in Nodes |-> 0]
  /\ lookup_hit_o' = FALSE /\ lookup_paddr_o' = ZeroPaddr

\* Fault: the frame of a page that is already held is not replaced.
FillOnce(page, frame) ==
  LET w == fill_write_idx(page)
  IN /\ valid' = [valid EXCEPT ![w] = TRUE]
     /\ vpn' = [vpn EXCEPT ![w] = page]
     /\ ppn' = IF any_hit(page) THEN ppn ELSE [ppn EXCEPT ![w] = frame]

\* Fill: write the translation into its slot.
Fill(page, frame) ==
  LET w == fill_write_idx(page)
  IN /\ valid' = [valid EXCEPT ![w] = TRUE]
     /\ vpn' = [vpn EXCEPT ![w] = page]
     /\ ppn' = [ppn EXCEPT ![w] = frame]

NoFill == UNCHANGED <<valid, vpn, ppn>>

\* Lookup: register the answer.
Lookup(page, off) ==
  /\ lookup_hit_o' = any_hit(page)
  /\ lookup_paddr_o' = IF any_hit(page) THEN <<ppn[hit_idx(page)], off>>
                       ELSE ZeroPaddr

NoLookup == lookup_hit_o' = FALSE /\ lookup_paddr_o' = ZeroPaddr

(***************************************************************************)
(* One edge: an optional fill and an optional lookup.  When both touch the *)
(* tree the fill's update is applied first.                                *)
(***************************************************************************)
EdgeIdle == NoFill /\ NoLookup /\ UNCHANGED plru_tree

\* Fault: a fill does not touch the tree.
EdgeFillUntouched(fpage, frame) ==
  Fill(fpage, frame) /\ NoLookup /\ UNCHANGED plru_tree

EdgeFill(fpage, frame) ==
  /\ Fill(fpage, frame) /\ NoLookup
  /\ plru_tree' = plru_update(plru_tree, fill_write_idx(fpage))

EdgeLookup(page, off) ==
  /\ NoFill /\ Lookup(page, off)
  /\ plru_tree' = IF any_hit(page) THEN plru_update(plru_tree, hit_idx(page))
                  ELSE plru_tree

EdgeBoth(fpage, frame, page, off) ==
  /\ Fill(fpage, frame) /\ Lookup(page, off)
  /\ LET filled == plru_update(plru_tree, fill_write_idx(fpage))
     IN plru_tree' = IF any_hit(page) THEN plru_update(filled, hit_idx(page))
                     ELSE filled

Next ==
  \/ Reset
  \/ EdgeIdle
  \/ \E p \in Pages, f \in Frames : EdgeFill(p, f)
  \/ \E p \in Pages, o \in Offsets : EdgeLookup(p, o)
  \/ \E fp, p \in Pages, f \in Frames, o \in Offsets : EdgeBoth(fp, f, p, o)

Spec == Init /\ [][Next]_vars
-----------------------------------------------------------------------------
(* Properties.                                                             *)

Paddrs == {ZeroPaddr} \cup (Frames \X Offsets)

\* The arrays, the tree and the registered outputs keep their widths.
TypeOK ==
  /\ valid \in [Entries -> BOOLEAN]
  /\ vpn \in [Entries -> Pages] /\ ppn \in [Entries -> Frames]
  /\ plru_tree \in [Nodes -> {0, 1}]
  /\ lookup_hit_o \in BOOLEAN /\ lookup_paddr_o \in Paddrs

(***************************************************************************)
(* A page is never held twice, although a fill picks its slot with a scan  *)
(* that is separate from the write: the lookup, which takes the highest    *)
(* matching slot, and the fill, which rewrites it, can never disagree.     *)
(***************************************************************************)
OneEntryPerPage ==
  \A i, j \in Entries :
    valid[i] /\ valid[j] /\ vpn[i] = vpn[j] => i = j

\* The translations held, as a partial map.
Held == [p \in Pages |-> IF any_hit(p) THEN ppn[hit_idx(p)] ELSE NoFrame]

TB == INSTANCE TranslationBuffer
        WITH map <- Held, hit <- lookup_hit_o, paddr <- lookup_paddr_o

(***************************************************************************)
(* The TLB is a translation buffer: a lookup answers with the frame of the *)
(* page's latest fill, a refill of a held page displaces nothing and any   *)
(* other fill displaces at most one page.                                  *)
(***************************************************************************)
ImplementsTranslationBuffer == TB!TBSpec

\* A fill is seen by every lookup after it, whether it rewrites the page's
\* slot, takes a free one or a victim's.
FillsTakeEffect ==
  [][\A p \in Pages, f \in Frames : Fill(p, f) => Held'[p] = f]_vars

\* A step that is not a reset forgets a page only if every slot was in use.
EvictsOnlyWhenFull ==
  [][(\E i \in Entries : valid'[i]) /\ (\E p \in Pages : Held[p] # NoFrame /\ Held'[p] = NoFrame)
        => Invalid = {}]_vars
=============================================================================
