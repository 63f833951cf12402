--------------------------- MODULE MCMemoryManager ---------------------------
(***************************************************************************)
(* Instances of MemoryManager: tiles of one, one and two units, and one    *)
(* tile no HBM budget below can hold.                                      *)
(***************************************************************************)
EXTENDS MemoryManager

CONSTANTS a, b, c, d, big

MCTiles == {a, b, c, d, big}
MCSize == [t \in MCTiles |-> CASE t = big -> 3 [] t = c -> 2 [] OTHER -> 1]

\* A caller that catches, with either policy; and the replay tool, which stops
\* at the first exception, also when a free fails.
Catching == [disableDramCache : BOOLEAN, retry : {TRUE}, freeMayFail : {FALSE}]
Stopping == [disableDramCache : BOOLEAN, retry : {FALSE}, freeMayFail : {TRUE}]
AllSetups == Catching \union Stopping

=============================================================================
