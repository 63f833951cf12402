---------------------------- MODULE TileManifest ----------------------------
(***************************************************************************)
(* build_manifest (src/tilepo/mir/schema.py): the tiles of a model are     *)
(* laid out in the order of their ids, weights in one blob and scales in   *)
(* another.  Nothing rejects a model that lists an id twice: the maps keep *)
(* what the later of the two wrote, and the room of the other stays.       *)
(*                                                                         *)
(* A tile id is <<layer, expert, group, shard, n_start, n_end>>, groups    *)
(* being numbered in alphabetical order.                                   *)
(***************************************************************************)
EXTENDS Integers, Sequences

CONSTANTS
  Ids,      \* tile ids
  Dresses,  \* what a tile may say besides: its dtype, and what it may leave out
  Mirs      \* lists of tiles: the models manifests are built of

Tile == [id : Ids, bytes : Int, scale : Int, dress : Dresses]

\* The optional fields of a tile; the two fallback fields make one entry.
Optional == {"format", "layout", "backend", "fallback"}
Given == {"dtype"} \union Optional
NotGiven == ""

ASSUME IdAssumption == Ids \subseteq [1 .. 6 -> Int]
ASSUME DressAssumption ==
  Dresses \subseteq {d \in [Given -> STRING] : d.dtype # NotGiven}
ASSUME MirAssumption == Mirs \subseteq Seq(Tile)

VARIABLES
  pc,           \* "validate", "lay", "done", or "rejected"
  mir,          \* model.tiles
  pending,      \* positions of the tiles not yet laid out
  weights,      \* tile_offsets with tile_bytes, by id
  scales,       \* scale_offsets with scale_bytes, by id
  side,         \* the dtype, format, layout, backend and fallback maps
  offset,       \* end of the weights so far
  scaleOffset   \* end of the scales so far

vars == <<pc, mir, pending, weights, scales, side, offset, scaleOffset>>

EmptyMap == [id \in {} |-> 0]

Init ==
  /\ pc = "validate"
  /\ mir \in Mirs
  /\ pending = DOMAIN mir
  /\ weights = EmptyMap /\ scales = EmptyMap
  /\ side = [field \in Given |-> EmptyMap]
  /\ offset = 0 /\ scaleOffset = 0

\* TileIR.validate and the check of ModelIR.validate that there are tiles.
Valid ==
  /\ mir # <<>>
  /\ \A i \in DOMAIN mir : mir[i].bytes > 0 /\ mir[i].scale >= 0

Validate ==
  /\ pc = "validate"
  /\ pc' = IF Valid THEN "lay" ELSE "rejected"
  /\ UNCHANGED <<mir, pending, weights, scales, side, offset, scaleOffset>>

\* The order of tuples.
IdLess(a, b) == \E n \in 1 .. 6 : a[n] < b[n] /\ \A m \in 1 .. n - 1 : a[m] = b[m]

\* Mutant: tiles are laid out in the order of the list.
BeforeInList(i, j) == i <= j

\* The order of tuples; a stable sort leaves equal ids in their order.
Before(i, j) ==
  IdLess(mir[i].id, mir[j].id) \/ (mir[i].id = mir[j].id /\ i <= j)

Put(map, id, value) ==
  [k \in DOMAIN map \union {id} |-> IF k = id THEN value ELSE map[k]]

Assign(map, id, at, size) == Put(map, id, [at |-> at, size |-> size])

\* What a tile does not say leaves the entry of an earlier tile of its id.
NoteDress(t) ==
  [field \in Given |->
     IF t.dress[field] = NotGiven THEN side[field]
     ELSE Put(side[field], t.id, t.dress[field])]

\* Mutant: an id that comes back keeps its first offset, whatever its size.
LayAtFirst(i) ==
  LET t == mir[i]
      at == IF t.id \in DOMAIN weights THEN weights[t.id].at ELSE offset
  IN  /\ weights' = Assign(weights, t.id, at, t.bytes)
      /\ offset' = IF t.id \in DOMAIN weights THEN offset ELSE offset + t.bytes
      /\ side' = NoteDress(t)
      /\ UNCHANGED <<scales, scaleOffset>>

\* One turn of the loop; a tile without scales is not in the scale maps.
Lay(i) ==
  LET t == mir[i]
  IN  /\ weights' = Assign(weights, t.id, offset, t.bytes)
      /\ offset' = offset + t.bytes
      /\ side' = NoteDress(t)
      /\ IF t.scale = 0 THEN UNCHANGED <<scales, scaleOffset>>
         ELSE /\ scales' = Assign(scales, t.id, scaleOffset, t.scale)
              /\ scaleOffset' = scaleOffset + t.scale

LayNext ==
  /\ pc = "lay"
  /\ \E i \in pending :
       /\ \A j \in pending : Before(i, j)
       /\ Lay(i)
       /\ pending' = pending \ {i}
  /\ UNCHANGED <<pc, mir>>

Finish ==
  /\ pc = "lay" /\ pending = {}
  /\ pc' = "done"
  /\ UNCHANGED <<mir, pending, weights, scales, side, offset, scaleOffset>>

Next == Validate \/ LayNext \/ Finish

Spec == Init /\ [][Next]_vars

-----------------------------------------------------------------------------
Region == [at : Nat, size : Nat]

TypeOK ==
  /\ pc \in {"validate", "lay", "done", "rejected"}
  /\ mir \in Seq(Tile)
  /\ pending \subseteq DOMAIN mir
  /\ DOMAIN weights \subseteq Ids /\ weights \in [DOMAIN weights -> Region]
  /\ DOMAIN scales \subseteq Ids /\ scales \in [DOMAIN scales -> Region]
  /\ \A field \in Given : DOMAIN side[field] \subseteq Ids
  /\ offset \in Nat /\ scaleOffset \in Nat

Apart(r, s) == r.at + r.size <= s.at \/ s.at + s.size <= r.at

PairwiseApart(map) == \A k, l \in DOMAIN map : k # l => Apart(map[k], map[l])

\* No two tiles of a manifest share a byte, of weights or of scales, also when
\* the model lists an id several times with other sizes, and also while the
\* manifest is being built.
RegionsApart == PairwiseApart(weights) /\ PairwiseApart(scales)

\* Every region ends where the blob ends or before.
EndsBy(map, end) == \A k \in DOMAIN map : map[k].at + map[k].size <= end

RegionsInside == EndsBy(weights, offset) /\ EndsBy(scales, scaleOffset)

=============================================================================
