------------------------- MODULE MCMemoryRefinement -------------------------
(***************************************************************************)
(* The instances of MCMemoryManager, with the history of MemoryRefinement. *)
(***************************************************************************)
EXTENDS MCMemoryManager, MemoryRefinement

=============================================================================
