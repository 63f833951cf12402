------------------------------ MODULE TilePlan ------------------------------
(***************************************************************************)
(* Plans and public model specs lowered to tiles (src/tilepo/compiler.py   *)
(* and model_interface.py), and the manifests built of them.               *)
(***************************************************************************)
EXTENDS TileManifest, TileLowering, FiniteSets

CONSTANTS
  Plans,   \* the plans that are compiled
  Specs    \* the public model specs that are compiled

\* _required_int, _positive_int, and what max(1, ...) makes of the tile block:
\* sizes are positive.
Shapes == [intermediate : Nat \ {0}, hidden : Nat \ {0}, shards : Nat \ {0}]
Sizes == {"layers", "experts", "budget", "hidden", "intermediate"}

ASSUME PlanAssumption == \A p \in Plans \union Specs :
  /\ Sizes \union {"tile", "hot", "cold", "groups", "hotExperts", "policy"} \subseteq DOMAIN p
  /\ \A size \in Sizes : p[size] \in Nat \ {0}
  /\ {p.tile, p.hot, p.cold} \subseteq Shapes
  /\ p.groups \in Seq({Attention, Down, GateUp})
  /\ p.hotExperts \in Int

\* ModelSpec.validate: no budget beyond the experts, and bf16 only.
SpecValid(s) == s.budget <= s.experts /\ s.dtypePolicy = "bf16" /\ s.allow = {"bf16"}

Lowerable ==
  {p \in Plans : PrecisionValid(p)}
  \union {AsPlan(s) : s \in {q \in Specs : SpecValid(q)}}
LoweredMirs == {Lower(p) : p \in Lowerable}

-----------------------------------------------------------------------------
Listed(p) == {p.groups[n] : n \in DOMAIN p.groups}

\* The columns a plan pays for: as many tiles as it has shards, of its width.
Reach(p, expert, g) ==
  Least(Extent(p, g), Width(Shape(p, expert), g) * Shape(p, expert).shards)

Covering(l, e, g, column) ==
  {id \in DOMAIN weights :
     /\ <<id[1], id[2], id[3]>> = <<l, e, g>>
     /\ id[5] <= column /\ column < id[6]}

\* In the manifest of a plan every column within reach lies in exactly one
\* tile of its layer, expert and projection group, and no other column in any:
\* fixed, covering and hybrid cuts, widths beyond the extent and groups that
\* are listed twice included.  The reach may be less than the extent.
ColumnsCoveredOnce ==
  pc = "done" =>
    \A p \in Lowerable : mir = Lower(p) =>
      \A l \in 0 .. p.layers, e \in 0 .. p.experts, g \in {Attention, Down, GateUp} :
        LET within == l < p.layers /\ e < Budget(p) /\ g \in Listed(p)
        IN  \A column \in 0 .. Extent(p, g) + 1 :
              Cardinality(Covering(l, e, g, column))
                = IF within /\ column < Reach(p, e, g) THEN 1 ELSE 0

\* What the tiles at some positions of the model take, of weights or of scales.
SumOf(field, positions) == MapThenSumSet(LAMBDA j : mir[j][field], positions)

Smaller(i) == {j \in DOMAIN mir : IdLess(mir[j].id, mir[i].id)}

\* A finished manifest of distinct tiles is packed: a tile begins where the
\* tiles of smaller ids end, so that equal models have equal blobs whatever
\* the order of their lists.
PackedInOrder ==
  pc = "done" /\ (\A i, j \in DOMAIN mir : mir[i].id = mir[j].id => i = j) =>
    \A i \in DOMAIN mir :
      /\ weights[mir[i].id] = [at |-> SumOf("bytes", Smaller(i)), size |-> mir[i].bytes]
      /\ mir[i].scale > 0 => scales[mir[i].id].at = SumOf("scale", Smaller(i))

=============================================================================
