-------------------------- MODULE TranslationBuffer --------------------------
(***************************************************************************)
(* What the load/store queue relies on when it translates an address: a    *)
(* partial map from pages to frames.  A fill sets one page's frame and may *)
(* forget at most one other page; a lookup answers one cycle later with    *)
(* the map as it was when it was asked.                                    *)
(***************************************************************************)
CONSTANTS Pages, Frames, Offsets,
          NoFrame,      \* the page is not mapped
          ZeroPaddr     \* what lookup_paddr_o shows when there is no hit

VARIABLES map, hit, paddr

tbVars == <<map, hit, paddr>>

Empty == [p \in Pages |-> NoFrame]

TBInit == map = Empty /\ hit = FALSE /\ paddr = ZeroPaddr

\* drop is the page, if any, whose translation makes room for page.
FillMap(page, frame, drop) ==
  [p \in Pages |-> IF p = page THEN frame
                   ELSE IF p \in drop THEN NoFrame ELSE map[p]]

Filled(page, frame) ==
  \E drop \in {{}} \cup {{p} : p \in Pages} :
    /\ drop # {} => map[page] = NoFrame
    /\ map' = FillMap(page, frame, drop)

LookedUp(page, off) ==
  /\ hit' = (map[page] # NoFrame)
  /\ paddr' = IF map[page] # NoFrame THEN <<map[page], off>> ELSE ZeroPaddr

NotFilled   == UNCHANGED map
NotLookedUp == hit' = FALSE /\ paddr' = ZeroPaddr

Flush == map' = Empty /\ hit' = FALSE /\ paddr' = ZeroPaddr

TBNext ==
  \/ Flush
  \/ /\ NotFilled \/ \E page \in Pages, frame \in Frames : Filled(page, frame)
     /\ NotLookedUp \/ \E page \in Pages, off \in Offsets : LookedUp(page, off)

TBSpec == TBInit /\ [][TBNext]_tbVars
=============================================================================
