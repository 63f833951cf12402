---------------------------- MODULE TileLowering ----------------------------
(***************************************************************************)
(* How a plan is cut into tiles (src/tilepo/compiler.py): every layer and  *)
(* every expert within the budget, projection group by projection group,   *)
(* into ranges of columns.  Operators only; TilePlan and Checkpoint use    *)
(* them.                                                                   *)
(***************************************************************************)
EXTENDS Integers, Sequences, FiniteSetsExt

\* Projection groups, numbered in alphabetical order.
Attention == 0
Down == 1
GateUp == 2
OverIntermediate == {Down, GateUp}

Extent(p, g) == IF g \in OverIntermediate THEN p.intermediate ELSE p.hidden

\* _select_tile_dtype: a bf16 policy does not look at the allow list.
Dtype(p) ==
  IF p.dtypePolicy = "bf16" THEN "bf16"
  ELSE IF "mxfp4" \in p.allow THEN "mxfp4"
  ELSE IF "fp8" \in p.allow THEN "fp8"
  ELSE "bf16"

\* PrecisionIR.validate, and the dtype there must be.
PrecisionValid(p) ==
  /\ p.allow # {}
  /\ p.allow \intersect {"fp8", "fp6", "fp4", "mxfp4"} # {} => p.calibrated
  /\ p.dtypePolicy # "bf16" => p.allow \intersect {"mxfp4", "fp8", "bf16"} # {}

-----------------------------------------------------------------------------
Least(a, b) == IF a < b THEN a ELSE b
Most(a, b) == IF a > b THEN a ELSE b

Cut(shard, start, end) == [shard |-> shard, start |-> start, end |-> end]

\* _fixed_shards: ranges that would be empty are left out.
FixedShards(extent, width, count) ==
  {Cut(s, s * width, Least(extent, (s + 1) * width)) :
     s \in {n \in 0 .. Most(1, count) - 1 : n * width < extent}}

\* Mutant: the last range is not cut at the extent.
UncutShards(extent, width, count) ==
  LET needed == (extent + width - 1) \div width
  IN  {Cut(s, s * width, (s + 1) * width) : s \in 0 .. Least(Most(1, count), needed) - 1}

\* _covering_shards: no more than are needed, and no more than the plan has.
CoveringShards(extent, width, count) ==
  LET needed == (extent + width - 1) \div width
  IN  {Cut(s, s * width, Least(extent, (s + 1) * width)) :
         s \in 0 .. Most(1, Least(Most(1, count), needed)) - 1}

Width(shape, g) == IF g \in OverIntermediate THEN shape.intermediate ELSE shape.hidden

\* _ablation_tile_shape: a hybrid plan has other tiles for its hot experts.
Shape(p, expert) ==
  IF p.policy # "tilepo_hybrid" THEN p.tile
  ELSE IF expert < p.hotExperts THEN p.hot
  ELSE p.cold

\* _tile_ranges.
Ranges(p, expert, g) ==
  LET shape == Shape(p, expert)
      extent == Extent(p, g)
      width == Width(shape, g)
  IN  IF p.policy = "uniform" THEN FixedShards(extent, width, shape.shards)
      ELSE IF width >= extent THEN {Cut(0, 0, extent)}
      ELSE CoveringShards(extent, width, shape.shards)

-----------------------------------------------------------------------------
TileBytes(p, r) ==
  LET elements == (r.end - r.start) * p.hidden
  IN  CASE Dtype(p) = "bf16" -> 2 * elements
        [] Dtype(p) = "fp8" -> elements
        [] Dtype(p) = "mxfp4" -> Most(1, elements \div 2)

ScaleBytes(p) == IF Dtype(p) = "bf16" THEN 0 ELSE 16

\* A lowered tile gives its dtype and no more.
Plain(dtype) ==
  [dtype |-> dtype, format |-> "", layout |-> "", backend |-> "", fallback |-> ""]

\* A plan whose memory block asks for more experts than there are gets all.
Budget(p) == Least(p.budget, p.experts)

Entry(p, l, e, n, r) ==
  [nth |-> n,
   tile |-> [id |-> <<l, e, p.groups[n], r.shard, r.start, r.end>>,
             bytes |-> TileBytes(p, r), scale |-> ScaleBytes(p),
             dress |-> Plain(Dtype(p))]]

\* One entry for each tile; a projection group listed twice is cut twice.
Tiles(p) ==
  UNION {{Entry(p, l, e, n, r) : r \in Ranges(p, e, p.groups[n])} :
           l \in 0 .. p.layers - 1, e \in 0 .. Budget(p) - 1, n \in DOMAIN p.groups}

\* lower_plan_to_mir.  A plan with an unacceptable precision has no model.
Lower(p) == FoldSet(LAMBDA entry, list : Append(list, entry.tile), <<>>, Tiles(p))

\* build_mir_from_model_spec: fixed shards whatever the tile block says.
AsPlan(s) == [s EXCEPT !.policy = "uniform"]

=============================================================================
