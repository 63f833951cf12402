---------------------------- MODULE MCCheckpoint ----------------------------
(***************************************************************************)
(* Checkpoints of two layers and three experts under the spellings of      *)
(* several model families, exported again and again into one directory.    *)
(***************************************************************************)
EXTENDS Checkpoint

MCNumerals == "0" :> 0 @@ "1" :> 1 @@ "2" :> 2

Keys == {"num_hidden_layers", "num_experts", "num_local_experts", "moe_top_k",
         "hidden_size", "intermediate_size", "moe_intermediate_size"}
MCLowercase == "Hidden_Size" :> "hidden_size" @@ [k \in Keys |-> k]

\* OLMoE, with both spellings of the width; and Mixtral, without the number of
\* active experts and with a key in capitals.
OlmoeConfig ==
  "num_hidden_layers" :> 2 @@ "num_experts" :> 3 @@ "moe_top_k" :> 1
  @@ "hidden_size" :> 2 @@ "intermediate_size" :> 7 @@ "moe_intermediate_size" :> 5
MixtralConfig ==
  "num_hidden_layers" :> 1 @@ "num_local_experts" :> 3 @@ "Hidden_Size" :> 1
  @@ "intermediate_size" :> 2
NoExperts == "num_hidden_layers" :> 1 @@ "hidden_size" :> 1 @@ "intermediate_size" :> 2
TooActive == MixtralConfig @@ "moe_top_k" :> 4

Olmoe(l, e, rest) == <<"model", "layers", l, "mlp", "experts", e>> \o rest
Mixtral(l, e, rest) == <<"model", "layers", l, "block_sparse_moe", "experts", e>> \o rest

\* What the authors of the checkpoints mean by the names.
Nothing == <<>>
Meaning ==
  Olmoe("0", "0", <<"gate_proj", "weight">>) :> <<0, 0, GateUp>>
  @@ Olmoe("0", "0", <<"up_proj", "qweight">>) :> <<0, 0, GateUp>>
  @@ Olmoe("0", "0", <<"down_proj", "bias">>) :> <<0, 0, Down>>
  @@ Olmoe("1", "0", <<"down_proj", "qweight">>) :> <<1, 0, Down>>
  @@ Olmoe("1", "2", <<"w1", "weight">>) :> <<1, 2, GateUp>>
  @@ Olmoe("1", "0", <<"gate_proj", "weight_scale">>) :> Nothing
  @@ <<"model", "layers", "0", "mlp", "experts", "gate_up_proj">> :> Nothing
  @@ <<"model", "layers", "0", "mlp", "gate", "weight">> :> Nothing
  @@ <<"model", "layers", "1", "mlp", "shared_expert", "up_proj", "weight">> :> Nothing
  @@ <<"model", "embed_tokens", "weight">> :> Nothing
  @@ Mixtral("0", "0", <<"w1", "weight">>) :> <<0, 0, GateUp>>
  @@ Mixtral("0", "0", <<"w3", "weight">>) :> <<0, 0, GateUp>>
  @@ Mixtral("0", "1", <<"w2", "weight">>) :> <<0, 1, Down>>
  @@ <<"1", "safetensors">> :> Nothing
  @@ <<"2", "safetensors">> :> Nothing

Family(part) == {n \in DOMAIN Meaning : Contains(n, part) \/ ~Contains(n, "experts")}

\* A tensor's shard is the one for its layer.
Sharded(names, first, second) ==
  [n \in {m \in names : m[1] = "model"} |->
     IF Contains(n, "1") THEN second ELSE first]

Checkpoint(dir, config, safetensors, bin, shards) ==
  [dir |-> dir, config |-> config, safetensors |-> safetensors, bin |-> bin,
   shards |-> shards]

\* Two shards; the same with one in a subdirectory under the other's name, in
\* the directory the copies go to; one whose second shard has not arrived; one
\* without an index; and two that are refused.
MCCheckpoints ==
  {Checkpoint("olmoe", OlmoeConfig, Sharded(Family("mlp"), <<0, 1>>, <<0, 2>>),
              Sharded(Family("mlp"), <<0, 3>>, <<0, 3>>), {<<0, 1>>, <<0, 2>>}),
   Checkpoint("weights", OlmoeConfig, Sharded(Family("mlp"), <<0, 1>>, <<1, 1>>),
              None, {<<0, 1>>, <<1, 1>>}),
   Checkpoint("partial", OlmoeConfig, Sharded(Family("mlp"), <<0, 1>>, <<0, 2>>),
              None, {<<0, 1>>}),
   Checkpoint("mixtral", MixtralConfig, None,
              Sharded(Family("block_sparse_moe"), <<1, 2>>, <<0, 1>>),
              {<<0, 1>>, <<1, 2>>}),
   Checkpoint("plain", MixtralConfig, None, None, {<<0, 1>>, <<0, 2>>}),
   Checkpoint("dense", NoExperts, None, None, {}),
   Checkpoint("odd", TooActive, None, None, {})}

MCSelections ==
  {[layers |-> All, experts |-> All], [layers |-> {0}, experts |-> {0}],
   [layers |-> {1, 5}, experts |-> {0, 2}]}

\* The tensors of a tile are those whose names mean its layer, expert and
\* projection group, whatever the family's spelling, quantised weights and
\* biases included; a tile that is not selected gets none; what is reported
\* missing is what was selected and no name means; and no tensor is both
\* matched and unmatched, or neither.
TensorsReachTheirTiles ==
  stage = 8 =>
    LET names == DOMAIN request.map
        chosen == {<<o[1], o[2], g>> : o \in Selected(request), g \in {GateUp, Down}}
        map == TileMap(request)
    IN  /\ \A id \in DOMAIN map :
             LET owner == <<id[1], id[2], id[3]>>
             IN  map[id].tensors = {n \in names : Meaning[n] = owner /\ owner \in chosen}
        /\ Missing(request) = {k \in chosen : \A n \in names : Meaning[n] # k}
        /\ Unmatched(request) = {n \in names : Meaning[n] \notin chosen}

=============================================================================
