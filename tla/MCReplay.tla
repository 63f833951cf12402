------------------------------ MODULE MCReplay ------------------------------
(***************************************************************************)
(* Replays over two layers of two experts.  The tiers hold 30 and 20 MiB,  *)
(* the manifest has 50: every replay evicts.  Sizes, tokens and distances  *)
(* weigh about as much in a score.                                         *)
(***************************************************************************)
EXTENDS Replay

CONSTANTS l0e0, l0e1, l1e0, l1e1, TraceLength

MCTiles == {l0e0, l0e1, l1e0, l1e1}
MCOrder == <<l0e0, l0e1, l1e0, l1e1>>
MCSize == [t \in MCTiles |-> IF t = l1e0 THEN 20 ELSE 10]
MCLayer == [t \in MCTiles |-> IF t \in {l0e0, l0e1} THEN 0 ELSE 1]
MCExpert == [t \in MCTiles |-> IF t \in {l0e0, l1e0} THEN 0 ELSE 1]

\* All short traces, and longer ones that begin with the same event twice: in
\* them a tile may be due first at the distance that reads as unset, and again.
Events(tokens) == [layer : {0, 1}, experts : SUBSET {0, 1}, tokens : tokens]
MCTraces ==
  [1 .. TraceLength -> Events({1, 4})]
    \union {t \in [1 .. TraceLength + 1 -> Events({1})] : t[1] = t[2]}

MCSetups ==
  [disableDramCache : BOOLEAN, retry : {FALSE}, freeMayFail : {FALSE}]

=============================================================================
