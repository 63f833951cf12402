-------------------------- MODULE MemoryRefinement --------------------------
(***************************************************************************)
(* How MemoryManager implements TileCache.  The order of the requests is a *)
(* history variable, independent of the stamps of the entries; the         *)
(* allocations no entry refers to give the lost bytes.  A buffer that the  *)
(* call in progress has just allocated is not lost yet.                    *)
(***************************************************************************)
EXTENDS MemoryManager

VARIABLE asked  \* pairs <<u, t>>: t was called for after u was last (history)

Lost(tier, ptr, allocs, phase) ==
  {a \in Unowned(tier, ptr, allocs) : ~(pc = phase /\ a.ptr = clock)}

Cache == INSTANCE TileCache WITH
  staging <- DisableDramCache,
  warm <- dram,
  hot <- hbm,
  order <- asked,
  serving <- cur,
  warmLost <- LiveBytes(Lost(dram, dramPtr, dramAllocs, "read")),
  hotLost <- LiveBytes(Lost(hbm, hbmPtr, hbmAllocs, "copy"))

RefinementInit == Init /\ asked = {}

Asked(t) == {p \in asked : p[1] # t} \union {<<u, t>> : u \in Tiles \ {t}}

RefinementNext ==
  \/ \E t \in Tiles :
       /\ Ensure(t)
       /\ asked' = IF clock' = clock THEN asked ELSE Asked(t)
  \/ CallStep /\ UNCHANGED asked

RefinementSpec ==
  RefinementInit /\ [][RefinementNext]_<<vars, asked>> /\ Fairness

\* The memory manager does what the abstract cache may do, and finishes every
\* request it accepts: ensure_hbm evicts the least recently requested tile of
\* a tier, only under pressure, and loses a buffer only when it throws.
ImplementsTileCache == Cache!Spec

=============================================================================
