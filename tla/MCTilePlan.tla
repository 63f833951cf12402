----------------------------- MODULE MCTilePlan -----------------------------
(***************************************************************************)
(* Instances of TilePlan and TileHandles: small plans of every tile        *)
(* policy, and models written by hand, some of which list an id twice or   *)
(* are invalid; and a registry of backends that goes on changing.          *)
(***************************************************************************)
EXTENDS TilePlan, TileHandles

TileShape(intermediate, hidden, shards) ==
  [intermediate |-> intermediate, hidden |-> hidden, shards |-> shards]

Bf16 == [dtypePolicy |-> "bf16", allow |-> {"bf16"}, calibrated |-> FALSE]
Mixed == [dtypePolicy |-> "mixed", allow |-> {"bf16", "fp8"}, calibrated |-> TRUE]
LowBit == [dtypePolicy |-> "mixed", allow |-> {"fp8", "mxfp4"}, calibrated |-> TRUE]
Uncalibrated == [dtypePolicy |-> "mixed", allow |-> {"mxfp4"}, calibrated |-> FALSE]

Plan(policy, tile, groups, budget, precision) ==
  [layers |-> IF budget = 1 THEN 2 ELSE 1, experts |-> 2, budget |-> budget, hidden |-> 3, intermediate |-> 5,
   policy |-> policy, tile |-> tile, groups |-> groups, hotExperts |-> 1,
   hot |-> TileShape(8, 8, 1), cold |-> tile,
   dtypePolicy |-> precision.dtypePolicy, allow |-> precision.allow,
   calibrated |-> precision.calibrated]

MCShapes == {TileShape(i, h, s) : i \in {1, 2, 5, 6}, h \in {2}, s \in {1, 2, 3, 5}}
MCPolicies == {"uniform", "tilepo_fine", "tilepo_hybrid"}

MCPlans ==
  {Plan(policy, shape, <<GateUp, Down>>, 3, Bf16) : policy \in MCPolicies, shape \in MCShapes}
  \union {Plan(policy, TileShape(2, 2, 3), groups, 1, precision) :
            policy \in MCPolicies, groups \in {<<GateUp, Attention>>, <<Down, Down>>},
            precision \in {Bf16, Mixed, LowBit, Uncalibrated}}

MCSpecs ==
  {Plan("tilepo_fine", shape, <<GateUp, Attention>>, budget, precision) :
     shape \in {TileShape(2, 2, 2), TileShape(6, 1, 3)}, budget \in {2, 3},
     precision \in {Bf16, Mixed}}

\* Models written by hand: two ids, any sizes, up to three tiles.
HandId(n) == <<0, 0, Down, n, n, n + 1>>
HandTiles ==
  [id : {HandId(n) : n \in 1 .. 2}, bytes : {0, 1, 3}, scale : {0, 2}, dress : {Plain("bf16")}]
HandMirs == UNION {[1 .. n -> HandTiles] : n \in 0 .. 3}

\* Models whose tiles say what backend, format and layout they are for.
Dressed(format, layout, backend) ==
  [dtype |-> "fp8", format |-> format, layout |-> layout, backend |-> backend, fallback |-> ""]
MCDresses ==
  {Plain(dtype) : dtype \in {"bf16", "fp8", "mxfp4"}}
  \union {Dressed("e4m3", layout, "customer") : layout \in {"", "block"}}
  \union {[Dressed("", "block", "") EXCEPT !.fallback = "bf16:cuda"]}
DressedTiles ==
  [id : {HandId(n) : n \in 1 .. 2}, bytes : {3}, scale : {0, 2}, dress : MCDresses]
DressedMirs == UNION {[1 .. n -> DressedTiles] : n \in 1 .. 2}

MCMirs == LoweredMirs \union HandMirs \union DressedMirs
MCIds == UNION {{list[i].id : i \in DOMAIN list} : list \in MCMirs}

Capability(name, formats, layouts, groups) ==
  [name |-> name, formats |-> formats, layouts |-> layouts, groups |-> groups]
MCCapabilities ==
  {Capability("customer", {"e4m3"}, {"block"}, {Down}),
   Capability("customer", {"e4m3", "fp8"}, {"block", "none"}, {Down, GateUp}),
   Capability("external", {"fp8"}, {"block"}, {Down, GateUp})}

=============================================================================
