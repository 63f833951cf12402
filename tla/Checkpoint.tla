----------------------------- MODULE Checkpoint -----------------------------
(***************************************************************************)
(* Preparation of a checkpoint (src/tilemem/checkpoint.py and              *)
(* src/tools/tilemem_checkpoint_prepare): a Hugging Face configuration is  *)
(* read, a model spec, MIR and manifest are made of it, the tensors of the *)
(* checkpoint are matched with the tiles by their names, six files and     *)
(* perhaps copies of the shards are written one after the other into a     *)
(* directory that may hold an older artifact, and a server is run with the *)
(* manifest.  The process may be killed, or meet an I/O error, between two *)
(* writes and in the middle of one.                                        *)
(*                                                                         *)
(* A tensor's name is the sequence of its dotted parts.  A shard is        *)
(* <<subdirectory, base name>>, both numbers, 0 being the directory        *)
(* itself; shards sort as such pairs.                                      *)
(***************************************************************************)
EXTENDS Integers, SequencesExt, TileLowering

CONSTANTS
  Checkpoints,    \* [dir, config, safetensors, bin, shards]
  Selections,     \* [layers, experts]: the options of the tool, sets or All
  All,            \* the option is not given
  None,           \* no value
  Lowercase,      \* str.lower of the configuration's keys
  Numerals,       \* int of the parts of names that are numbers
  TileExtent,     \* 256, the largest extent of a tile in the default spec
  TileShards,     \* 4, its shard_count
  MaxExports,     \* bound: exports into the directory
  MaxBreaks       \* bound: kills and I/O errors

ASSUME BoundAssumption == MaxExports \in Nat /\ MaxBreaks \in Nat
ASSUME NoneAssumption == None \notin {0, 1, 124}  \* no exit code
ASSUME CheckpointAssumption ==
  /\ IsFiniteSet(Checkpoints)
  /\ \A c \in Checkpoints :
       /\ IsFiniteSet(c.shards)
       /\ \A index \in {c.safetensors, c.bin} :
            index # None => IsFiniteSet(Range(index))

\* Mutant: the summary no longer comes last.
StagesSummaryEarly ==
  <<"spec", "mir", "manifest", "shards", "summary", "weight_map", "tile_map">>

\* What export_checkpoint_artifact writes, in this order.
Stages ==
  <<"spec", "mir", "manifest", "shards", "weight_map", "tile_map", "summary">>

Files == <<"spec", "mir", "manifest", "weight_map", "tile_map", "summary">>

VARIABLES
  stage,     \* 0 no export runs, 1..7 position in Stages, 8 the server runs
  exports,   \* number of exports begun
  request,   \* checkpoint, its spec, selection and flags of the last of them
  todo,      \* shards still to be copied
  copied,    \* `materialized`: the shards copied so far
  files,     \* number of the export each file is of, and whether it is whole
  blobs,     \* contents of the shard files, by <<directory, subdirectory, name>>
  exit,      \* exit code of the last run of the tool, None while it runs
  breaks     \* number of kills and errors

prepareVars == <<stage, exports, request, todo, copied, files, blobs, exit, breaks>>

-----------------------------------------------------------------------------
\* Topology: the first key that is there, as spelled, then in lower case.
Lookup(config, keys) ==
  LET lowered == [k \in {Lowercase[f] : f \in DOMAIN config} |->
                    config[CHOOSE f \in DOMAIN config : Lowercase[f] = k]]
      first(names) == SelectInSeq(keys, LAMBDA k : k \in names)
  IN  IF first(DOMAIN config) > 0 THEN config[keys[first(DOMAIN config)]]
      ELSE IF first(DOMAIN lowered) > 0 THEN lowered[keys[first(DOMAIN lowered)]]
      ELSE None

LayerKeys == <<"num_hidden_layers", "n_layers", "num_layers">>
ExpertKeys == <<"num_experts", "num_local_experts", "n_routed_experts",
                "moe_num_experts", "num_experts_per_layer">>
ActiveKeys == <<"num_experts_per_tok", "num_experts_per_token", "moe_top_k",
                "top_k", "router_top_k">>
HiddenKeys == <<"hidden_size", "d_model", "n_embd">>
IntermediateKeys == <<"moe_intermediate_size", "intermediate_size",
                      "ffn_hidden_size", "expert_intermediate_size">>

\* infer_moe_topology; the number of active experts has a default.
Topology(config) ==
  LET experts == Lookup(config, ExpertKeys)
      active == Lookup(config, ActiveKeys)
  IN  [layers |-> Lookup(config, LayerKeys), experts |-> experts,
       active |-> IF active # None THEN active
                  ELSE IF experts = None THEN None ELSE Least(2, experts),
       hidden |-> Lookup(config, HiddenKeys),
       intermediate |-> Lookup(config, IntermediateKeys)]

\* _required_int_from and _optional_int_from, and ModelSpec.validate.
Acceptable(config) ==
  LET t == Topology(config)
  IN  /\ \A f \in DOMAIN t : t[f] # None /\ t[f] > 0
      /\ t.active <= t.experts

\* model_spec_from_hf_config as the tool calls it: as many experts as are
\* active for a token, and a tile shape that does not look at the model.
HfSpec(config) ==
  LET t == Topology(config)
  IN  [layers |-> t.layers, experts |-> t.experts, budget |-> t.active,
       hidden |-> t.hidden, intermediate |-> t.intermediate,
       policy |-> "uniform",
       tile |-> [intermediate |-> Least(t.intermediate, TileExtent),
                 hidden |-> Least(t.hidden, TileExtent), shards |-> TileShards],
       groups |-> <<GateUp, Down>>, dtypePolicy |-> "bf16", allow |-> {"bf16"},
       calibrated |-> FALSE]

-----------------------------------------------------------------------------
\* load_checkpoint_weight_map: the first index that exists, or the files of the
\* directory under their own names, which no tile will match.
TopLevel(c) == {s \in {0} \X {p[3] : p \in DOMAIN blobs} :
                  <<c.dir, s[1], s[2]>> \in DOMAIN blobs}
FileName(s) == <<ToString(s[2]), "safetensors">>

WeightMap(c) ==
  IF c.safetensors # None THEN c.safetensors
  ELSE IF c.bin # None THEN c.bin
  ELSE [n \in {FileName(s) : s \in TopLevel(c)} |->
          CHOOSE s \in TopLevel(c) : FileName(s) = n]

\* The number after the first part that is the marker, if it is one.
NumberAfter(name, marker) ==
  LET at == {i \in 1 .. Len(name) - 1 : name[i] = marker}
  IN  IF at # {} /\ name[Min(at) + 1] \in DOMAIN Numerals
      THEN Numerals[name[Min(at) + 1]] ELSE None

\* Mutant: only `weight` itself is passed over.
LeafBeforeWeight(name) ==
  LET at == {i \in DOMAIN name : name[i] # "weight"}
  IN  IF at = {} THEN None ELSE name[Max(at)]

\* The last part that is neither `bias` nor ends in `weight`.
WeightSuffixes == {"weight", "bias", "qweight"}
ProjectionLeaf(name) ==
  LET at == {i \in DOMAIN name : name[i] \notin WeightSuffixes}
  IN  IF at = {} THEN None ELSE name[Max(at)]

ProjectionGroup(leaf) ==
  CASE leaf \in {"w1", "gate_proj", "gate", "gate_up", "w3", "up_proj", "up"} -> GateUp
    [] leaf \in {"w2", "down_proj", "down"} -> Down
    [] OTHER -> None

\* _parse_weight_name: <<layer, expert, group>>, or None.
ParseWeightName(name) ==
  LET layer == NumberAfter(name, "layers")
      expert == NumberAfter(name, "experts")
      leaf == ProjectionLeaf(name)
      group == IF leaf = None THEN None ELSE ProjectionGroup(leaf)
  IN  IF None \in {layer, expert, group} THEN None ELSE <<layer, expert, group>>

\* match_checkpoint_weights: what the selected owners' groups resolve to.
Selected(r) ==
  (IF r.selection.layers = All THEN 0 .. r.spec.layers - 1 ELSE r.selection.layers)
  \X (IF r.selection.experts = All THEN 0 .. Budget(r.spec) - 1
      ELSE r.selection.experts)
Resolved(r) ==
  [k \in {<<o[1], o[2], g>> : o \in Selected(r), g \in {GateUp, Down}} |->
     {n \in DOMAIN r.map : ParseWeightName(n) = k}]
Missing(r) == {k \in DOMAIN Resolved(r) : Resolved(r)[k] = {}}
Unmatched(r) == {n \in DOMAIN r.map : ParseWeightName(n) \notin DOMAIN Resolved(r)}

ShardLess(s, t) == s[1] < t[1] \/ (s[1] = t[1] /\ s[2] < t[2])

\* sorted: the list of a set of shards, of which there is one.
Sorted(shards) ==
  {list \in [1 .. Cardinality(shards) -> shards] :
     /\ ToSet(list) = shards
     /\ \A i \in 1 .. Cardinality(shards) - 1 : ShardLess(list[i], list[i + 1])}

Source(r, s) == <<r.checkpoint.dir, s[1], s[2]>>
Target(s) == <<"weights", 0, s[2]>>

\* build_tile_checkpoint_map, with the ids of the tiles of the manifest.
TileMap(r) ==
  LET resolved == Resolved(r)
  IN  [id \in {t.tile.id : t \in Tiles(r.spec)} |->
         LET owner == <<id[1], id[2], id[3]>>
             tensors == IF owner \in DOMAIN resolved THEN resolved[owner] ELSE {}
             shards == {r.map[n] : n \in tensors}
         IN  [tensors |-> tensors, shards |-> shards,
              materialized |-> {Target(s) : s \in shards \intersect copied}]]

-----------------------------------------------------------------------------
NoRequest == [checkpoint |-> None]

PrepareInit ==
  /\ stage = 0 /\ exports = 0 /\ request = NoRequest
  /\ todo = <<>> /\ copied = {}
  /\ files = [f \in ToSet(Files) |-> [of |-> 0, whole |-> TRUE]]
  /\ blobs = [p \in UNION {{<<c.dir, s[1], s[2]>> : s \in c.shards} : c \in Checkpoints}
                |-> p]
  /\ exit = None /\ breaks = 0

\* The configuration and the index are read, the model is lowered and the
\* names are matched before anything is written.
Begin(c, selection, materialize) ==
  /\ stage = 0 /\ exports < MaxExports
  /\ c.config # None /\ Acceptable(c.config)
  /\ stage' = 1 /\ exports' = exports + 1
  /\ request' = [checkpoint |-> c, spec |-> HfSpec(c.config), selection |-> selection,
                 map |-> WeightMap(c), materialize |-> materialize]
  /\ todo' \in IF materialize THEN Sorted(Range(WeightMap(c))) ELSE {<<>>}
  /\ copied' = {} /\ exit' = None
  /\ UNCHANGED <<files, blobs, breaks>>

\* No configuration, or one without an acceptable topology.
Refuse(c) ==
  /\ stage = 0 /\ exports < MaxExports
  /\ c.config # None => ~Acceptable(c.config)
  /\ exit' = 1 /\ exports' = exports + 1
  /\ UNCHANGED <<stage, request, todo, copied, files, blobs, breaks>>

Write ==
  /\ stage \in 1 .. 7 /\ Stages[stage] # "shards"
  /\ files' = [files EXCEPT ![Stages[stage]] = [of |-> exports, whole |-> TRUE]]
  /\ stage' = stage + 1
  /\ UNCHANGED <<exports, request, todo, copied, blobs, exit, breaks>>

Copying == stage \in 1 .. 7 /\ Stages[stage] = "shards"

\* The blobs with a file written.
Stored(path, content) ==
  [p \in DOMAIN blobs \union {path} |-> IF p = path THEN content ELSE blobs[p]]

\* Mutant: a copy that is there already is kept.
CopyIfAbsent ==
  /\ Copying /\ todo # <<>> /\ Source(request, Head(todo)) \in DOMAIN blobs
  /\ blobs' = IF Target(Head(todo)) \in DOMAIN blobs THEN blobs
              ELSE Stored(Target(Head(todo)), blobs[Source(request, Head(todo))])
  /\ copied' = copied \union {Head(todo)} /\ todo' = Tail(todo)
  /\ UNCHANGED <<stage, exports, request, files, exit, breaks>>

\* A shard that is its own target is left alone.
Copy ==
  /\ Copying /\ todo # <<>> /\ Source(request, Head(todo)) \in DOMAIN blobs
  /\ blobs' = Stored(Target(Head(todo)), blobs[Source(request, Head(todo))])
  /\ copied' = copied \union {Head(todo)} /\ todo' = Tail(todo)
  /\ UNCHANGED <<stage, exports, request, files, exit, breaks>>

CopyDone ==
  /\ Copying /\ todo = <<>>
  /\ stage' = stage + 1
  /\ UNCHANGED <<exports, request, todo, copied, files, blobs, exit, breaks>>

Stop(code) == stage' = 0 /\ exit' = code

\* FileNotFoundError, with the files of this export written so far.
ShardMissing ==
  /\ Copying /\ todo # <<>> /\ Source(request, Head(todo)) \notin DOMAIN blobs
  /\ Stop(1)
  /\ UNCHANGED <<exports, request, todo, copied, files, blobs, breaks>>

\* Killed, or an I/O error, before or while the next file is written.
Break ==
  /\ stage \in 1 .. 7 /\ breaks < MaxBreaks
  /\ \/ UNCHANGED <<files, blobs>>
     \/ /\ Stages[stage] # "shards"
        /\ files' = [files EXCEPT ![Stages[stage]] = [of |-> exports, whole |-> FALSE]]
        /\ UNCHANGED blobs
     \/ /\ Copying /\ todo # <<>>
        /\ Source(request, Head(todo)) \in DOMAIN blobs \ {Target(Head(todo))}
        /\ blobs' = Stored(Target(Head(todo)), "torn")
        /\ UNCHANGED files
  /\ breaks' = breaks + 1
  /\ Stop(1)
  /\ UNCHANGED <<exports, request, todo, copied>>

\* run_serving_backend on the manifest: 0 of a dry run, the server's exit code,
\* or 124 when it has not ended in time.
Serve ==
  /\ stage = 8
  /\ \E code \in {0, 1, 124} : Stop(code)
  /\ UNCHANGED <<exports, request, todo, copied, files, blobs, breaks>>

PrepareNext ==
  \/ \E c \in Checkpoints, selection \in Selections, materialize \in BOOLEAN :
       Begin(c, selection, materialize)
  \/ \E c \in Checkpoints : Refuse(c)
  \/ Write
  \/ Copy
  \/ CopyDone
  \/ ShardMissing
  \/ Break
  \/ Serve

PrepareSpec == PrepareInit /\ [][PrepareNext]_prepareVars

-----------------------------------------------------------------------------
PrepareTypes ==
  /\ stage \in 0 .. 8
  /\ exports \in Nat
  /\ files \in [ToSet(Files) -> [of : Nat, whole : BOOLEAN]]
  /\ breaks \in Nat

\* However often exports into the directory are killed, fail or find a shard
\* missing: a file is never newer than one that is written before it, and a
\* file that is not whole is newer than all that come after it.  So a summary
\* of the same export as the model spec vouches for everything in between.
WrittenInOrder ==
  \A i, j \in DOMAIN Files : i < j =>
    LET earlier == files[Files[i]]
        later == files[Files[j]]
    IN  /\ later.of <= earlier.of
        /\ ~earlier.whole => later.of < earlier.of

\* When the tool exits with 0, or its server only ran out of time, all files are
\* those of this export, and every shard a tile is mapped to has been copied as
\* it is in the checkpoint, if that was asked for and no two shards have one
\* base name.  Copies of earlier exports, torn ones too, do not get in.
PreparedArtifactIsFaithful ==
  exit \in {0, 124} =>
    /\ \A f \in DOMAIN files : files[f] = [of |-> exports, whole |-> TRUE]
    /\ request.materialize
         /\ (\A s, t \in Range(request.map) : s[2] = t[2] => s = t)
       => \A entry \in Range(TileMap(request)) : \A s \in entry.shards :
            /\ Target(s) \in entry.materialized
            /\ blobs[Target(s)] = blobs[Source(request, s)]

=============================================================================
