---------------------------- MODULE MCTileRuntime ----------------------------
(***************************************************************************)
(* Two experts with three hot tiles between them, and a third expert       *)
(* without any.                                                            *)
(***************************************************************************)
EXTENDS TileRuntime

CONSTANTS a1, a2, b1, c1, ea, eb, ec

MCTiles == {a1, a2, b1, c1}
MCHotTiles == {a1, a2, b1}
MCExperts == {ea, eb, ec}
MCExpertOf == [t \in MCTiles |-> CASE t = b1 -> eb [] t = c1 -> ec [] OTHER -> ea]
MCBytes == [t \in MCTiles |-> CASE t = a1 -> 1 [] t = a2 -> 2 [] OTHER -> 4]
MCTopks == {<<>>, <<ea>>, <<ea, eb>>, <<eb, ec>>, <<ec>>}
MCPriority == <<"cuda", "kt_fallback">>

=============================================================================
