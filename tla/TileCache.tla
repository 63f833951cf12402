------------------------------ MODULE TileCache ------------------------------
(***************************************************************************)
(* What the replay runtime's memory manager promises, without clocks,      *)
(* pointers, counters or allocation tables: two nested tiers, each within  *)
(* a byte budget, that give up their least recently requested tile, and    *)
(* only when the tile being served does not fit.  Bytes lost to a failed   *)
(* transfer stay lost.                                                     *)
(***************************************************************************)
EXTENDS Integers, Functions

CONSTANTS Tiles, Size, DramBudget, HbmBudget, NoTile

VARIABLES
  staging,   \* DRAM only stages what is on its way to HBM
  warm,      \* tiles with a copy in DRAM
  hot,       \* tiles with a copy in HBM
  order,     \* pairs <<u, t>>: t has been requested since u last was
  serving,   \* the tile being brought into HBM, or NoTile
  warmLost,  \* bytes of DRAM no tile can use any more
  hotLost    \* bytes of HBM no tile can use any more

vars == <<staging, warm, hot, order, serving, warmLost, hotLost>>

Init ==
  /\ staging \in BOOLEAN
  /\ warm = {} /\ hot = {}
  /\ order = {}
  /\ serving = NoTile
  /\ warmLost = 0 /\ hotLost = 0

Bytes(tier) == SumFunction([t \in tier |-> Size[t]])

WarmFits == Bytes(warm) + warmLost + Size[serving] <= DramBudget
HotFits == Bytes(hot) + hotLost + Size[serving] <= HbmBudget

LeastRecent(tier) == CHOOSE u \in tier : \A t \in tier \ {u} : <<u, t>> \in order

\* All others are now less recent than t, and t than none.
MostRecent(t) ==
  order' = {p \in order : p[1] # t} \union {<<u, t>> : u \in Tiles \ {t}}

Hit(t) ==
  /\ serving = NoTile
  /\ t \in hot
  /\ MostRecent(t)
  /\ UNCHANGED <<warm, hot, serving, warmLost, hotLost>>

Request(t) ==
  /\ serving = NoTile
  /\ t \notin hot
  /\ Size[t] <= DramBudget /\ Size[t] <= HbmBudget
  /\ MostRecent(t)
  /\ serving' = t
  /\ UNCHANGED <<warm, hot, warmLost, hotLost>>

\* The HBM copy goes with the DRAM copy.
DropWarm ==
  /\ serving # NoTile /\ serving \notin warm
  /\ ~WarmFits /\ warm # {}
  /\ warm' = warm \ {LeastRecent(warm)}
  /\ hot' = hot \ {LeastRecent(warm)}
  /\ UNCHANGED <<order, serving, warmLost, hotLost>>

FillWarm ==
  /\ serving # NoTile /\ serving \notin warm
  /\ WarmFits
  /\ warm' = warm \union {serving}
  /\ UNCHANGED <<hot, order, serving, warmLost, hotLost>>

DropHot ==
  /\ serving # NoTile /\ serving \in warm
  /\ ~HotFits /\ hot # {}
  /\ hot' = hot \ {LeastRecent(hot)}
  /\ UNCHANGED <<warm, order, serving, warmLost, hotLost>>

FillHot ==
  /\ serving # NoTile /\ serving \in warm
  /\ HotFits
  /\ hot' = hot \union {serving}
  /\ warm' = IF staging THEN warm \ {serving} ELSE warm
  /\ serving' = NoTile
  /\ UNCHANGED <<order, warmLost, hotLost>>

\* The request fails: nothing else leaves a tier, and one buffer of the
\* tile's size may be lost, in the tier it was to enter.
GiveUp ==
  /\ serving # NoTile
  /\ serving' = NoTile
  /\ \/ UNCHANGED <<warmLost, hotLost>>
     \/ /\ serving \notin warm /\ WarmFits
        /\ warmLost' = warmLost + Size[serving]
        /\ UNCHANGED hotLost
     \/ /\ serving \in warm /\ HotFits
        /\ hotLost' = hotLost + Size[serving]
        /\ UNCHANGED warmLost
  /\ UNCHANGED <<warm, hot, order>>

Serve ==
  /\ UNCHANGED staging
  /\ DropWarm \/ FillWarm \/ DropHot \/ FillHot \/ GiveUp

Next ==
  \/ \E t \in Tiles : (Hit(t) \/ Request(t)) /\ UNCHANGED staging
  \/ Serve

Spec == Init /\ [][Next]_vars /\ WF_vars(Serve)

=============================================================================
