------------------------------ MODULE Scheduler ------------------------------
(***************************************************************************)
(* The planner of the C++ replay runtime (src/src/scheduler.cc): which     *)
(* tiles an event of the routing trace requires, and which tiles of later  *)
(* events a policy brings into HBM first.  Every operator takes the trace  *)
(* and the (1-based) index of the event.                                   *)
(***************************************************************************)
EXTENDS Integers, SequencesExt

CONSTANTS
  Tiles,      \* ids of the manifest
  Size,       \* StorageTile::bytes, in MiB
  TileOrder,  \* the ids as required_for_event sorts them
  LayerOf,    \* StorageTileId::layer
  ExpertOf,   \* StorageTileId::expert
  Lookahead,  \* config.lookahead
  Unset       \* distance_penalty while no use has been met: 1000.0

NoPrefetchPolicies == {"on_demand", "lru", "tilemem_no_hbm_prefetch"}
InOrderPolicies == {"layerwise_prefetch", "oracle", "tilemem_no_conflict"}
ScoredPolicies == {"tilemem", "tilemem_no_dram_cache",
                   "tilemem_no_eviction_regret", "tilemem_no_deadline"}
Policies == NoPrefetchPolicies \union InOrderPolicies \union ScoredPolicies

\* The elements of s at the indices in K, in their order.
At(s, K) ==
  [n \in 1 .. Cardinality(K) |->
     s[CHOOSE k \in K : Cardinality({j \in K : j <= k}) = n]]

RequiredForEvent(trace, i) ==
  At(TileOrder, {k \in DOMAIN TileOrder :
                   /\ LayerOf[TileOrder[k]] = trace[i].layer
                   /\ ExpertOf[TileOrder[k]] \in trace[i].experts})

Least(x, y) == IF x < y THEN x ELSE y

\* The events the policy may look at: those after i, at most Lookahead of them.
Horizon(trace, i) == i + 1 .. Least(Len(trace), i + Lookahead)

\* Mutant: each id where it comes last.
DistinctFromEnd(ids) ==
  At(ids, {k \in DOMAIN ids : \A j \in k + 1 .. Len(ids) : ids[j] # ids[k]})

\* Each id where it comes first (insert into `seen`).
Distinct(ids) ==
  At(ids, {k \in DOMAIN ids : \A j \in 1 .. k - 1 : ids[j] # ids[k]})

FutureTiles(trace, i) ==
  Distinct(FlattenSeq([k \in 1..Cardinality(Horizon(trace, i)) |->
                         RequiredForEvent(trace, i + k)]))

\* Mutant: the tiles the event itself requires stay in the plan.
FutureWithRequired(trace, i) == FutureTiles(trace, i)

Future(trace, i) ==
  LET future == FutureTiles(trace, i)
      required == ToSet(RequiredForEvent(trace, i))
  IN  At(future, {k \in DOMAIN future : future[k] \notin required})

\* The events that require a tile later: the whole rest of the trace, not only
\* the horizon.
Uses(trace, i, t) ==
  {j \in i + 1 .. Len(trace) : Contains(RequiredForEvent(trace, j), t)}

\* The event that requires the tile next, and the tokens of all that do.
Due(trace, i, t) == Min(Uses(trace, i, t))
TokensLater(trace, i, t) ==
  SumFunction([j \in Uses(trace, i, t) |-> trace[j].tokens])

\* distance_penalty: each use overwrites a penalty that still reads as unset, so
\* a first use exactly that far ahead counts only when no other follows it.
Distance(trace, i, t) ==
  LET uses == {j \in Uses(trace, i, t) : j - i # Unset}
  IN  IF uses = {} THEN Unset ELSE Min(uses) - i

\* 700 / distance + 30 * tokens - 25 * size, as a fraction; without the terms
\* the policy leaves out.
Score(policy, trace, i, t) ==
  LET distance == Distance(trace, i, t)
      deadline == IF policy = "tilemem_no_deadline" THEN 0 ELSE 700
      reuse == IF policy = "tilemem_no_eviction_regret"
               THEN 0 ELSE 30 * TokensLater(trace, i, t)
  IN  [num |-> deadline + (reuse - 25 * Size[t]) * distance, den |-> distance]

NotAbove(a, b) == a.num * b.den <= b.num * a.den

\* Mutant: the comparison is the wrong way round.
ByScoreAscending(policy, trace, i) ==
  {p \in SetToSeqs(ToSet(Future(trace, i))) :
     \A j \in 1 .. Len(p) - 1 :
       NotAbove(Score(policy, trace, i, p[j]), Score(policy, trace, i, p[j + 1]))}

\* std::sort by descending score; tiles of equal score come in any order.
ByScore(policy, trace, i) ==
  {p \in SetToSeqs(ToSet(Future(trace, i))) :
     \A j \in 1 .. Len(p) - 1 :
       NotAbove(Score(policy, trace, i, p[j + 1]), Score(policy, trace, i, p[j]))}

\* The prefetch lists plan() may return.
Plans(policy, trace, i) ==
  IF policy \in NoPrefetchPolicies \/ Lookahead <= 0 THEN {<<>>}
  ELSE IF policy \in InOrderPolicies THEN {Future(trace, i)}
  ELSE ByScore(policy, trace, i)

=============================================================================
