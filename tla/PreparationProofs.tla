------------------------- MODULE PreparationProofs -------------------------
(***************************************************************************)
(* What is prepared before serving, for every set of plans, models and     *)
(* checkpoints.                                                            *)
(*                                                                         *)
(* Regions: an invariant of the loop says that all regions so far end at   *)
(* the offset or before, and that is where the next one begins, also when  *)
(* it replaces the region of an id that was there already.                 *)
(*                                                                         *)
(* Handles: an invariant of the loop relates what the manifest says of a   *)
(* tile to what the model says of it; one of the registry says that what   *)
(* was supported when the handles were built is supported as long as no    *)
(* backend loses something.                                                *)
(*                                                                         *)
(* Columns and order: the ranges of a plan are the multiples of a width,   *)
(* the lists and sums of the models are folds over finite sets.            *)
(*                                                                         *)
(* Checkpoints: the order of the files of a prepared checkpoint and the    *)
(* contents of one that was prepared to the end.                           *)
(*                                                                         *)
(* Plans: single precision counts agree with the hits as far as they are   *)
(* exact, rounding keeps the order of the ranks, and an expert that its    *)
(* layer does not keep is made up for by one that it does.                 *)
(***************************************************************************)
EXTENDS TilePlan, TileHandles, Checkpoint, ProfileTuning, Collections, FiniteSetTheorems,
        SequenceTheorems, TLAPS

(* The regions of a manifest *)

\* Only valid models are laid out.
Validated == pc = "lay" => Valid

IInv == TypeOK /\ Validated /\ RegionsInside /\ RegionsApart

-----------------------------------------------------------------------------
\* A region that begins at the end of the blob is apart from the others, and
\* all of them end at the new end or before (the loop of build_manifest).
LEMMA AssignAtEnd ==
  ASSUME NEW map, DOMAIN map \subseteq Ids, map \in [DOMAIN map -> Region],
         NEW id \in Ids, NEW at \in Nat, NEW size \in Nat,
         EndsBy(map, at), PairwiseApart(map)
  PROVE  LET new == Assign(map, id, at, size)
         IN  /\ DOMAIN new \subseteq Ids /\ new \in [DOMAIN new -> Region]
             /\ EndsBy(new, at + size)
             /\ PairwiseApart(new)
<1> DEFINE new == Assign(map, id, at, size)
<1>1. DOMAIN new = DOMAIN map \union {id}
  BY DEF Assign, Put
<1>2. new[id] = [at |-> at, size |-> size] /\ new[id] \in Region
  BY DEF Assign, Put, Region
<1>3. ASSUME NEW k \in DOMAIN map, k # id
      PROVE  new[k] = map[k] /\ map[k] \in Region
  BY <1>3 DEF Assign, Put
<1>4. DOMAIN new \subseteq Ids
  BY <1>1
<1>5. new \in [DOMAIN new -> Region]
  <2>1. \A k \in DOMAIN new : new[k] \in Region
    BY <1>1, <1>2, <1>3
  <2>2. new = [k \in DOMAIN new |-> new[k]]
    BY DEF Assign, Put
  <2> QED BY <2>1, <2>2
<1>6. EndsBy(new, at + size)
  <2> SUFFICES ASSUME NEW k \in DOMAIN new
               PROVE  new[k].at + new[k].size <= at + size
    BY DEF EndsBy
  <2>1. CASE k = id
    BY <2>1, <1>2
  <2>2. CASE k # id
    <3>1. k \in DOMAIN map
      BY <1>1, <2>2
    <3>2. new[k] = map[k] /\ map[k].at + map[k].size <= at /\ map[k] \in Region
      BY <1>3, <2>2, <3>1 DEF EndsBy
    <3> QED BY <3>2 DEF Region
  <2> QED BY <2>1, <2>2
<1>7. PairwiseApart(new)
  <2> SUFFICES ASSUME NEW k \in DOMAIN new, NEW l \in DOMAIN new, k # l
               PROVE  Apart(new[k], new[l])
    BY DEF PairwiseApart
  <2>1. ASSUME NEW m \in DOMAIN new, m # id
        PROVE  m \in DOMAIN map /\ new[m] = map[m] /\ new[m].at + new[m].size <= at
    BY <1>1, <1>3, <2>1 DEF EndsBy
  <2>2. CASE k = id
    BY <1>2, <2>1, <2>2 DEF Apart
  <2>3. CASE l = id
    BY <1>2, <2>1, <2>3 DEF Apart
  <2>4. CASE k # id /\ l # id
    BY <2>1, <2>4 DEF PairwiseApart
  <2> QED BY <2>2, <2>3, <2>4
<1> QED BY <1>4, <1>5, <1>6, <1>7

-----------------------------------------------------------------------------
LEMMA InitIInv == Init => IInv
BY MirAssumption
   DEF Init, IInv, TypeOK, Validated, RegionsInside, RegionsApart, EndsBy,
       PairwiseApart, EmptyMap

\* One turn of the loop of build_manifest.
LEMMA LayIInv ==
  ASSUME IInv, pc = "lay", NEW i \in pending, Lay(i)
  PROVE  /\ DOMAIN weights' \subseteq Ids /\ weights' \in [DOMAIN weights' -> Region]
         /\ DOMAIN scales' \subseteq Ids /\ scales' \in [DOMAIN scales' -> Region]
         /\ offset' \in Nat /\ scaleOffset' \in Nat
         /\ \A field \in Given : DOMAIN side'[field] \subseteq Ids
         /\ RegionsInside' /\ RegionsApart'
<1> DEFINE t == mir[i]
<1>1. t \in Tile /\ t.bytes \in Nat /\ t.scale \in Nat /\ t.id \in Ids
  <2>1. mir \in Seq(Tile) /\ i \in DOMAIN mir
    BY DEF IInv, TypeOK
  <2>2. mir[i] \in Tile
    BY <2>1
  <2>3. mir[i].bytes > 0 /\ mir[i].scale >= 0
    BY <2>1 DEF IInv, Validated, Valid
  <2> QED BY <2>2, <2>3 DEF Tile
<1>2. /\ DOMAIN weights' \subseteq Ids /\ weights' \in [DOMAIN weights' -> Region]
      /\ offset' \in Nat
      /\ EndsBy(weights', offset') /\ PairwiseApart(weights')
  <2>1. weights' = Assign(weights, t.id, offset, t.bytes) /\ offset' = offset + t.bytes
    BY DEF Lay
  <2>2. /\ DOMAIN weights \subseteq Ids /\ weights \in [DOMAIN weights -> Region]
        /\ offset \in Nat /\ EndsBy(weights, offset) /\ PairwiseApart(weights)
    BY DEF IInv, TypeOK, RegionsInside, RegionsApart
  <2> QED BY <1>1, <2>1, <2>2, AssignAtEnd
<1>3. /\ DOMAIN scales' \subseteq Ids /\ scales' \in [DOMAIN scales' -> Region]
      /\ scaleOffset' \in Nat
      /\ EndsBy(scales', scaleOffset') /\ PairwiseApart(scales')
  <2>1. /\ DOMAIN scales \subseteq Ids /\ scales \in [DOMAIN scales -> Region]
        /\ scaleOffset \in Nat /\ EndsBy(scales, scaleOffset) /\ PairwiseApart(scales)
    BY DEF IInv, TypeOK, RegionsInside, RegionsApart
  <2>2. CASE t.scale = 0
    BY <2>1, <2>2 DEF Lay
  <2>3. CASE t.scale # 0
    <3>1. /\ scales' = Assign(scales, t.id, scaleOffset, t.scale)
          /\ scaleOffset' = scaleOffset + t.scale
      BY <2>3 DEF Lay
    <3> QED BY <1>1, <2>1, <3>1, AssignAtEnd
  <2> QED BY <2>2, <2>3
<1>4. ASSUME NEW field \in Given PROVE DOMAIN side'[field] \subseteq Ids
  <2>1. DOMAIN side[field] \subseteq Ids
    BY DEF IInv, TypeOK
  <2>2. DOMAIN Put(side[field], t.id, t.dress[field]) = DOMAIN side[field] \union {t.id}
    BY DEF Put
  <2>3. \/ side'[field] = side[field]
        \/ side'[field] = Put(side[field], t.id, t.dress[field])
    BY DEF Lay, NoteDress
  <2> QED BY <1>1, <2>1, <2>2, <2>3
<1> QED BY <1>2, <1>3, <1>4 DEF RegionsInside, RegionsApart

LEMMA NextIInv == IInv /\ [Next]_vars => IInv'
<1> SUFFICES ASSUME IInv, [Next]_vars PROVE IInv'
  OBVIOUS
<1>1. CASE Validate
  BY <1>1 DEF Validate, IInv, TypeOK, Validated, Valid, RegionsInside, RegionsApart,
              EndsBy, PairwiseApart
<1>2. CASE LayNext
  <2>1. PICK i \in pending : Lay(i) /\ pending' = pending \ {i}
    BY <1>2 DEF LayNext
  <2>2. pc = "lay" /\ pc' = pc /\ mir' = mir
    BY <1>2 DEF LayNext
  <2>3. TypeOK'
    BY <2>1, <2>2, LayIInv DEF IInv, TypeOK
  <2>4. Validated'
    BY <2>2 DEF IInv, Validated, Valid
  <2> QED BY <2>1, <2>2, <2>3, <2>4, LayIInv DEF IInv
<1>3. CASE Finish
  BY <1>3 DEF Finish, IInv, TypeOK, Validated, RegionsInside, RegionsApart, EndsBy,
              PairwiseApart
<1>4. CASE UNCHANGED vars
  BY <1>4 DEF vars, IInv, TypeOK, Validated, Valid, RegionsInside, RegionsApart,
              EndsBy, PairwiseApart
<1> QED BY <1>1, <1>2, <1>3, <1>4 DEF Next

LEMMA IInvAlways == Spec => []IInv
BY InitIInv, NextIInv, PTL DEF Spec

\* Offsets stay natural numbers and the maps name tiles of the model only.
THEOREM TypeCorrect == Spec => []TypeOK
<1>1. IInv => TypeOK
  BY DEF IInv
<1> QED BY <1>1, IInvAlways, PTL

\* For every list of tiles, repeated ids included, build_manifest gives no
\* byte of the weights or of the scales to two tiles.
THEOREM NoByteIsShared == Spec => []RegionsApart
<1>1. IInv => RegionsApart
  BY DEF IInv
<1> QED BY <1>1, IInvAlways, PTL

-----------------------------------------------------------------------------
(* The handles of a manifest *)

\* What the manifest says of the tiles laid out so far is what the model says
\* of them, if it lists no id twice; and it says nothing yet of the others.
SideInv ==
  AllDistinct =>
    /\ DOMAIN weights = {mir[i].id : i \in DOMAIN mir \ pending}
    /\ \A field \in Given, i \in DOMAIN mir :
         /\ mir[i].id \in DOMAIN side[field]
              <=> i \notin pending /\ mir[i].dress[field] # NotGiven
         /\ mir[i].id \in DOMAIN side[field]
              => side[field][mir[i].id] = mir[i].dress[field]

\* Handles are those of the finished manifest, and what was dispatchable when
\* they were built still is, unless a backend has lost something since.
HandlesInv ==
  handles # EmptyMap =>
    /\ pc = "done" /\ DOMAIN handles = DOMAIN weights
    /\ \A id \in DOMAIN handles :
         /\ handles[id].fields = Fields(id)
         /\ ~narrowed /\ handles[id].dispatchable => Dispatchable(handles[id].fields)

DoneInv == pc = "done" => pending = {}

LEMMA SideInvInit == Init => SideInv /\ DoneInv
<1> SUFFICES ASSUME Init PROVE SideInv /\ DoneInv
  OBVIOUS
<1>1. /\ pc = "validate" /\ pending = DOMAIN mir /\ weights = EmptyMap
      /\ \A field \in Given : side[field] = EmptyMap
  BY DEF Init
<1>2. DOMAIN EmptyMap = {}
  BY DEF EmptyMap
<1>3. SideInv
  BY <1>1, <1>2 DEF SideInv
<1>4. QED
  BY <1>1, <1>3 DEF DoneInv

\* A turn of the loop notes what its tile says and nothing else.
LEMMA LayNotes ==
  ASSUME TypeOK, SideInv, AllDistinct, NEW i \in pending, Lay(i),
         pending' = pending \ {i}, mir' = mir
  PROVE  SideInv'
<1> DEFINE t == mir[i]
<1>1. /\ i \in DOMAIN mir /\ pending \subseteq DOMAIN mir
      /\ \A j \in DOMAIN mir : mir[j].id = t.id => j = i
  BY DEF TypeOK, AllDistinct
<1>2. /\ DOMAIN weights' = DOMAIN weights \union {t.id}
      /\ side' = NoteDress(t)
  BY DEF Lay, Assign, Put
<1>3. DOMAIN weights' = {mir[j].id : j \in DOMAIN mir \ pending'}
  BY <1>1, <1>2 DEF SideInv
<1>4. ASSUME NEW field \in Given, NEW j \in DOMAIN mir
      PROVE  /\ mir[j].id \in DOMAIN side'[field]
                  <=> j \notin pending' /\ mir[j].dress[field] # NotGiven
             /\ mir[j].id \in DOMAIN side'[field]
                  => side'[field][mir[j].id] = mir[j].dress[field]
  <2>1. /\ mir[j].id \in DOMAIN side[field]
             <=> j \notin pending /\ mir[j].dress[field] # NotGiven
        /\ mir[j].id \in DOMAIN side[field]
             => side[field][mir[j].id] = mir[j].dress[field]
    BY DEF SideInv
  <2>2. side'[field] = IF t.dress[field] = NotGiven THEN side[field]
                       ELSE Put(side[field], t.id, t.dress[field])
    BY <1>2 DEF NoteDress
  <2>3. CASE t.dress[field] = NotGiven
    BY <1>1, <2>1, <2>2, <2>3
  <2>4. CASE t.dress[field] # NotGiven
    <3>1. /\ DOMAIN side'[field] = DOMAIN side[field] \union {t.id}
          /\ \A k \in DOMAIN side'[field] :
               side'[field][k] = IF k = t.id THEN t.dress[field] ELSE side[field][k]
      BY <2>2, <2>4 DEF Put
    <3>2. CASE j = i
      BY <1>1, <2>4, <3>1, <3>2
    <3>3. CASE j # i
      <4>1. mir[j].id # t.id
        BY <1>1, <3>3
      <4>2. QED
        BY <1>1, <2>1, <3>1, <3>3, <4>1
    <3>4. QED
      BY <3>2, <3>3
  <2>5. QED
    BY <2>3, <2>4
<1>5. QED
  BY <1>3, <1>4 DEF SideInv

LEMMA SideInvStep ==
  ASSUME TypeOK, SideInv, DoneInv, [Next]_vars
  PROVE  SideInv' /\ DoneInv'
<1>1. CASE LayNext
  <2>1. PICK i \in pending : Lay(i) /\ pending' = pending \ {i}
    BY <1>1 DEF LayNext
  <2>2. mir' = mir /\ pc' = pc /\ pc = "lay"
    BY <1>1 DEF LayNext
  <2>3. AllDistinct' => AllDistinct
    BY <2>2 DEF AllDistinct
  <2>4. CASE AllDistinct
    BY <2>1, <2>2, <2>4, LayNotes DEF DoneInv
  <2>5. CASE ~AllDistinct
    BY <2>2, <2>3, <2>5 DEF SideInv, DoneInv
  <2>6. QED
    BY <2>4, <2>5
<1>2. CASE Validate \/ Finish \/ UNCHANGED vars
  <2>1. UNCHANGED <<mir, pending, weights, side>>
    BY <1>2 DEF Validate, Finish, vars
  <2>2. SideInv'
    BY <2>1 DEF SideInv, AllDistinct
  <2>3. DoneInv'
    BY <1>2 DEF Validate, Finish, vars, DoneInv
  <2>4. QED
    BY <2>2, <2>3
<1>3. QED
  BY <1>1, <1>2 DEF Next

\* A backend that is registered and has lost nothing still supports a handle.
LEMMA WiderSupports ==
  ASSUME NEW new, NEW old, Wider(new, old), NEW h, Supports(old, h)
  PROVE  Supports(new, h)
BY DEF Wider, Supports

\* What a handle's being dispatchable depends on.
LEMMA DispatchableOf ==
  ASSUME NEW f
  PROVE  /\ Dispatchable(f) <=> \/ f.backend = KtFallback
                                \/ /\ f.backend \in DOMAIN registry
                                   /\ Supports(registry[f.backend], f)
         /\ Dispatchable(f)' <=> \/ f.backend = KtFallback
                                 \/ /\ f.backend \in DOMAIN registry'
                                    /\ Supports(registry'[f.backend], f)
BY DEF Dispatchable, Supports

\* Registering and clearing: a handle that is dispatchable stays so, or
\* narrowed is set.
LEMMA RegistryKeepsHandles ==
  ASSUME NEW f, ~narrowed, Dispatchable(f), ~narrowed',
         Clear \/ \E capability \in Capabilities : Register(capability)
  PROVE  Dispatchable(f)'
<1>1. CASE f.backend = KtFallback
  BY <1>1, DispatchableOf
<1>2. CASE f.backend # KtFallback
  <2>1. f.backend \in DOMAIN registry /\ Supports(registry[f.backend], f)
    BY <1>2, DispatchableOf
  <2>2. CASE Clear
    <3>1. registry = EmptyMap
      BY <2>2 DEF Clear
    <3>2. QED
      BY <2>1, <3>1 DEF EmptyMap
  <2>3. ASSUME NEW c \in Capabilities, Register(c)
        PROVE  Dispatchable(f)'
    <3>1. /\ registry' = Put(registry, c.name, c)
          /\ c.name \in DOMAIN registry => Wider(c, registry[c.name])
      BY <2>3 DEF Register
    <3>2. f.backend \in DOMAIN registry'
          /\ registry'[f.backend] = IF f.backend = c.name THEN c ELSE registry[f.backend]
      BY <2>1, <3>1 DEF Put
    <3>3. CASE f.backend = c.name
      <4>1. Supports(c, f)
        BY <2>1, <3>1, <3>3, WiderSupports
      <4>2. QED
        BY <3>2, <3>3, <4>1, DispatchableOf
    <3>4. CASE f.backend # c.name
      BY <2>1, <3>2, <3>4, DispatchableOf
    <3>5. QED
      BY <3>3, <3>4
  <2>4. QED
    BY <2>2, <2>3
<1>3. QED
  BY <1>1, <1>2

LEMMA HandlesInvStep ==
  ASSUME HandlesInv, [HandlesNext]_<<vars, handleVars>>
  PROVE  HandlesInv'
<1>1. CASE Next /\ UNCHANGED handleVars
  <2>1. UNCHANGED <<registry, handles, narrowed>>
    BY <1>1 DEF handleVars
  <2>2. handles = EmptyMap
    BY <1>1 DEF HandlesInv, Next, Validate, LayNext, Finish
  <2>3. EmptyMap' = EmptyMap
    BY DEF EmptyMap
  <2>4. QED
    BY <2>1, <2>2, <2>3 DEF HandlesInv
<1>2. CASE UNCHANGED vars /\ BuildHandles
  <2>1. /\ pc' = "done" /\ DOMAIN handles' = DOMAIN weights'
        /\ \A id \in DOMAIN handles' :
             handles'[id] = [fields |-> Fields(id), dispatchable |-> Dispatchable(Fields(id))]
    BY <1>2 DEF BuildHandles, vars
  <2>2. UNCHANGED <<registry, weights, scales, side>>
    BY <1>2 DEF BuildHandles, vars
  <2>3. ASSUME NEW id \in DOMAIN handles'
        PROVE  /\ handles'[id].fields = Fields(id) /\ Fields(id)' = Fields(id)
               /\ handles'[id].dispatchable => Dispatchable(Fields(id))'
    <3>1. Fields(id)' = Fields(id)
      BY <2>2 DEF Fields
    <3>2. Dispatchable(Fields(id))' <=> Dispatchable(Fields(id))
      BY <2>2, <3>1 DEF Dispatchable, Supports
    <3>3. QED
      BY <2>1, <3>1, <3>2
  <2>4. ASSUME NEW id \in DOMAIN handles'
        PROVE  handles'[id].dispatchable => Dispatchable(handles[id].fields)'
    BY <2>2, <2>3 DEF Dispatchable, Supports
  <2>5. QED
    BY <2>1, <2>3, <2>4 DEF HandlesInv
<1>3. CASE /\ UNCHANGED vars
           /\ Clear \/ \E capability \in Capabilities : Register(capability)
  <2>1. UNCHANGED <<handles, pc, weights, scales, side>> /\ (narrowed => narrowed')
    BY <1>3 DEF vars, Clear, Register
  <2>2. SUFFICES ASSUME handles # EmptyMap, NEW id \in DOMAIN handles
                 PROVE  /\ handles[id].fields = Fields(id)'
                        /\ ~narrowed' /\ handles[id].dispatchable
                             => Dispatchable(handles[id].fields)'
    BY <2>1 DEF HandlesInv, EmptyMap
  <2>3. handles[id].fields = Fields(id)'
    BY <2>1, <2>2 DEF HandlesInv, Fields
  <2>4. ASSUME ~narrowed', handles[id].dispatchable
        PROVE  Dispatchable(handles[id].fields)'
    <3>1. PICK f : f = handles[id].fields
      OBVIOUS
    <3>2. Dispatchable(f) /\ ~narrowed
      BY <2>1, <2>2, <2>4, <3>1 DEF HandlesInv
    <3>3. Dispatchable(f)'
      BY <1>3, <2>4, <3>2, RegistryKeepsHandles
    <3>4. QED
      BY <2>1, <3>1, <3>3 DEF Dispatchable, Supports
  <2>5. QED
    BY <2>3, <2>4
<1>4. CASE UNCHANGED <<vars, handleVars>>
  <2>1. UNCHANGED <<handles, registry, narrowed, pc, weights, scales, side>>
    BY <1>4 DEF vars, handleVars
  <2>2. QED
    BY <2>1 DEF HandlesInv, EmptyMap, Fields, Dispatchable, Supports
<1>5. QED
  BY <1>1, <1>2, <1>3, <1>4 DEF HandlesNext, HandlesStep

\* Beside its callers the manifest is built as it is alone.
LEMMA HandlesSpecBuilds == HandlesSpec => Spec
<1>1. [HandlesNext]_<<vars, handleVars>> => [Next]_vars
  BY DEF HandlesNext, HandlesStep
<1>2. HandlesInit => Init
  BY DEF HandlesInit
<1>3. QED
  BY <1>1, <1>2, PTL DEF HandlesSpec, Spec

\* A tile that is to be dispatched goes to KT or to a registered backend that
\* supports what the model says of the tile.
THEOREM DispatchIsSupported == HandlesSpec => []DispatchedTilesAreSupported
<1>1. /\ Init => SideInv /\ DoneInv
      /\ TypeOK /\ SideInv /\ DoneInv /\ [Next]_vars => SideInv' /\ DoneInv'
  BY SideInvInit, SideInvStep
<1>2. Spec => [](TypeOK /\ SideInv /\ DoneInv)
  BY <1>1, TypeCorrect, PTL DEF Spec
<1>3. HandlesInit => HandlesInv
  BY DEF HandlesInit, HandlesInv
<1>4. HandlesSpec => []HandlesInv
  BY <1>3, HandlesInvStep, PTL DEF HandlesSpec
<1>5. TypeOK /\ SideInv /\ DoneInv /\ HandlesInv => DispatchedTilesAreSupported
  <2>1. SUFFICES ASSUME TypeOK, SideInv, DoneInv, HandlesInv,
                        ~narrowed, AllDistinct, handles # EmptyMap, NEW i \in DOMAIN mir,
                        handles[mir[i].id].dispatchable
        PROVE  LET said == mir[i].dress
                   format == IF said.format = NotGiven THEN said.dtype ELSE said.format
                   layout == IF said.layout = NotGiven THEN "none" ELSE said.layout
                   owner == IF said.backend = NotGiven THEN DefaultBackend(said.dtype)
                            ELSE said.backend
               IN  \/ owner = KtFallback
                   \/ /\ owner \in DOMAIN registry
                      /\ format \in registry[owner].formats
                      /\ layout \in registry[owner].layouts
                      /\ Group(mir[i].id) \in registry[owner].groups
    BY DEF DispatchedTilesAreSupported
  <2> DEFINE t == mir[i]
             h == handles[t.id].fields
  <2>2. pending = {} /\ t.id \in DOMAIN handles
    BY <2>1 DEF HandlesInv, DoneInv, SideInv
  <2>3. h = Fields(t.id) /\ Dispatchable(h)
    BY <2>1, <2>2 DEF HandlesInv
  <2>4. \A field \in Given :
          /\ t.id \in DOMAIN side[field] <=> t.dress[field] # NotGiven
          /\ t.id \in DOMAIN side[field] => side[field][t.id] = t.dress[field]
    BY <2>1, <2>2 DEF SideInv
  <2>5. t.dress.dtype # NotGiven
    <3>1. t \in Tile
      BY <2>1 DEF TypeOK
    <3>2. QED
      BY <3>1, DressAssumption DEF Tile
  <2> HIDE DEF t
  <2>6. /\ side.dtype = side["dtype"] /\ side.format = side["format"]
        /\ side.layout = side["layout"] /\ side.backend = side["backend"]
    OBVIOUS
  <2>7. /\ OrElse(side.dtype, t.id, "bf16") = t.dress.dtype
        /\ OrElse(side.format, t.id, t.dress.dtype)
             = IF t.dress.format = NotGiven THEN t.dress.dtype ELSE t.dress.format
        /\ OrElse(side.layout, t.id, "none")
             = IF t.dress.layout = NotGiven THEN "none" ELSE t.dress.layout
        /\ OrElse(side.backend, t.id, DefaultBackend(t.dress.dtype))
             = IF t.dress.backend = NotGiven THEN DefaultBackend(t.dress.dtype)
               ELSE t.dress.backend
    BY <2>4, <2>5 DEF Given, Optional, OrElse
  <2>8. /\ h.group = Group(t.id)
        /\ h.format = IF t.dress.format = NotGiven THEN t.dress.dtype ELSE t.dress.format
        /\ h.layout = IF t.dress.layout = NotGiven THEN "none" ELSE t.dress.layout
        /\ h.backend = IF t.dress.backend = NotGiven THEN DefaultBackend(t.dress.dtype)
                       ELSE t.dress.backend
    BY <2>3, <2>7 DEF Fields
  <2> HIDE DEF h
  <2>9. \/ h.backend = KtFallback
        \/ /\ h.backend \in DOMAIN registry
           /\ h.format \in registry[h.backend].formats
           /\ h.layout \in registry[h.backend].layouts
           /\ h.group \in registry[h.backend].groups
    BY <2>3 DEF Dispatchable, Supports
  <2>10. QED
    BY <2>8, <2>9 DEF t
<1>6. QED
  BY <1>2, <1>4, <1>5, HandlesSpecBuilds, PTL

-----------------------------------------------------------------------------
(* The columns of a plan *)

\* A plan as PlanAssumption says, whatever its policy.
WellFormed(p) ==
  /\ {p.layers, p.experts, p.budget, p.hidden, p.intermediate} \subseteq Nat \ {0}
  /\ {p.tile, p.hot, p.cold} \subseteq Shapes
  /\ p.groups \in Seq({Attention, Down, GateUp})

LEMMA LowerableIsWellFormed ==
  ASSUME NEW p \in Lowerable PROVE WellFormed(p)
<1>1. ASSUME NEW q \in Plans \union Specs PROVE WellFormed(q) /\ WellFormed(AsPlan(q))
  <2>1. /\ Sizes \union {"tile", "hot", "cold", "groups", "hotExperts", "policy"} \subseteq DOMAIN q
        /\ \A size \in Sizes : q[size] \in Nat \ {0}
        /\ {q.tile, q.hot, q.cold} \subseteq Shapes
        /\ q.groups \in Seq({Attention, Down, GateUp})
    BY PlanAssumption
  <2>2. \A field \in DOMAIN q : field # "policy" => AsPlan(q)[field] = q[field]
    BY DEF AsPlan
  <2>3. /\ AsPlan(q).layers = q.layers /\ AsPlan(q).experts = q.experts
        /\ AsPlan(q).budget = q.budget /\ AsPlan(q).hidden = q.hidden
        /\ AsPlan(q).intermediate = q.intermediate /\ AsPlan(q).tile = q.tile
        /\ AsPlan(q).hot = q.hot /\ AsPlan(q).cold = q.cold /\ AsPlan(q).groups = q.groups
    BY <2>1, <2>2 DEF Sizes
  <2>4. WellFormed(q)
    BY <2>1 DEF WellFormed, Sizes
  <2> HIDE DEF AsPlan
  <2> QED BY <2>3, <2>4 DEF WellFormed
<1> QED BY <1>1 DEF Lowerable

\* Multiples of a width, and the one a column lies behind.
LEMMA Multiples ==
  ASSUME NEW m \in Nat, NEW n \in Nat, NEW w \in Nat \ {0}
  PROVE  /\ m * w \in Nat /\ (m + 1) * w = m * w + w
         /\ m < n => (m + 1) * w <= n * w
<1>1. m * w \in Nat /\ (m + 1) * w = m * w + w
  OBVIOUS
<1>2. ASSUME m < n PROVE (m + 1) * w <= n * w
  <2>1. PICK d \in Nat : n = (m + 1) + d
    <3>1. n - (m + 1) \in Nat /\ n = (m + 1) + (n - (m + 1))
      BY <1>2
    <3> QED BY <3>1
  <2>2. n * w = (m + 1) * w + d * w /\ d * w >= 0
    BY <2>1
  <2> QED BY <2>2
<1> QED BY <1>1, <1>2

LEMMA ShardOfColumn ==
  ASSUME NEW column \in Nat, NEW w \in Nat \ {0}
  PROVE  \E s \in Nat : s * w <= column /\ column < (s + 1) * w
<1> DEFINE s == column \div w
<1>1. s \in Nat /\ column = w * s + (column % w) /\ column % w \in 0 .. w - 1
  OBVIOUS
<1> HIDE DEF s
<1>2. s * w = w * s /\ (s + 1) * w = w * s + w
  BY <1>1
<1>3. s * w <= column /\ column < (s + 1) * w
  BY <1>1, <1>2
<1> QED BY <1>1, <1>3

\* The number of shards that cover an extent.
LEMMA NeededShards ==
  ASSUME NEW extent \in Nat \ {0}, NEW w \in Nat \ {0}
  PROVE  LET needed == (extent + w - 1) \div w
         IN  /\ needed \in Nat \ {0}
             /\ \A s \in Nat : s * w < extent <=> s < needed
<1> DEFINE needed == (extent + w - 1) \div w
<1>1. /\ needed \in Nat
      /\ \E r \in 0 .. w - 1 : extent + w - 1 = w * needed + r
  <2>1. extent + w - 1 \in Nat
    OBVIOUS
  <2>2. extent + w - 1 = w * needed + ((extent + w - 1) % w) /\ (extent + w - 1) % w \in 0 .. w - 1
    BY <2>1
  <2>3. needed \in Nat
    BY <2>1
  <2> QED BY <2>2, <2>3
<1> HIDE DEF needed
<1>2. needed * w < extent + w /\ extent <= needed * w
  BY <1>1
<1>3. needed # 0
  BY <1>1, <1>2
<1>4. ASSUME NEW s \in Nat PROVE s * w < extent <=> s < needed
  <2>1. CASE s < needed
    BY <1>1, <1>2, <2>1, Multiples
  <2>2. CASE s >= needed
    <3>1. s = needed \/ needed < s
      BY <1>1, <2>2
    <3>2. needed * w <= s * w
      BY <1>1, <3>1, Multiples
    <3> QED BY <1>1, <1>2, <2>2, <3>2
  <2> QED BY <1>1, <2>1, <2>2
<1> QED BY <1>1, <1>3, <1>4 DEF needed

-----------------------------------------------------------------------------
Groups == {Attention, Down, GateUp}

\* The shards that are not empty, whatever the policy.
ShardsOf(extent, width, count) == {s \in 0 .. count - 1 : s * width < extent}
CutAt(extent, width, s) == Cut(s, s * width, Least(extent, (s + 1) * width))

LEMMA ShapeType ==
  ASSUME NEW p, WellFormed(p), NEW e, NEW g
  PROVE  /\ Extent(p, g) \in Nat \ {0} /\ Width(Shape(p, e), g) \in Nat \ {0}
         /\ Shape(p, e).shards \in Nat \ {0}
<1>1. Shape(p, e) \in {p.tile, p.hot, p.cold}
  BY DEF Shape
<1>2. Shape(p, e) \in Shapes
  BY <1>1 DEF WellFormed
<1> QED BY <1>2 DEF WellFormed, Shapes, Extent, Width

LEMMA RangesAre ==
  ASSUME NEW p, WellFormed(p), NEW e, NEW g
  PROVE  LET extent == Extent(p, g)
             width == Width(Shape(p, e), g)
         IN  Ranges(p, e, g)
               = {CutAt(extent, width, s) : s \in ShardsOf(extent, width, Shape(p, e).shards)}
<1> DEFINE extent == Extent(p, g)
           width == Width(Shape(p, e), g)
           count == Shape(p, e).shards
           cuts == {CutAt(extent, width, s) : s \in ShardsOf(extent, width, count)}
<1>1. extent \in Nat \ {0} /\ width \in Nat \ {0} /\ count \in Nat \ {0}
  BY ShapeType
<1>2. Most(1, count) = count
  BY <1>1 DEF Most
<1>3. FixedShards(extent, width, count) = cuts
  BY <1>2 DEF FixedShards, ShardsOf, CutAt
<1>4. CoveringShards(extent, width, count) = cuts
  <2> DEFINE needed == (extent + width - 1) \div width
  <2>1. needed \in Nat \ {0} /\ \A s \in Nat : s * width < extent <=> s < needed
    <3> HIDE DEF extent, width
    <3> QED BY <1>1, NeededShards
  <2> HIDE DEF needed, extent, width, count
  <2>2. Most(1, Least(Most(1, count), needed)) = Least(count, needed)
    BY <1>1, <1>2, <2>1 DEF Most, Least
  <2>3. 0 .. Least(count, needed) - 1 = ShardsOf(extent, width, count)
    BY <1>1, <2>1 DEF ShardsOf, Least
  <2> QED BY <2>2, <2>3 DEF CoveringShards, CutAt, needed
<1>5. ASSUME width >= extent PROVE {Cut(0, 0, extent)} = cuts
  <2> HIDE DEF extent, width, count
  <2>1. ASSUME NEW s \in Nat, s # 0 PROVE ~(s * width < extent)
    BY <1>1, <1>5, <2>1, Multiples
  <2>2. 0 * width = 0 /\ (0 + 1) * width = width
    BY <1>1
  <2>3. ShardsOf(extent, width, count) = {0}
    <3>1. 0 \in 0 .. count - 1 /\ 0 * width < extent
      BY <1>1, <2>2
    <3>2. \A s \in 0 .. count - 1 : s * width < extent => s = 0
      BY <1>1, <2>1
    <3> QED BY <3>1, <3>2 DEF ShardsOf
  <2>4. CutAt(extent, width, 0) = Cut(0, 0, extent)
    BY <1>1, <1>5, <2>2 DEF CutAt, Least
  <2> QED BY <2>3, <2>4
<1>6. Ranges(p, e, g) = IF p.policy = "uniform" THEN FixedShards(extent, width, count)
                        ELSE IF width >= extent THEN {Cut(0, 0, extent)}
                        ELSE CoveringShards(extent, width, count)
  BY DEF Ranges
<1> HIDE DEF extent, width, count
<1>7. Ranges(p, e, g) = cuts
  BY <1>3, <1>4, <1>5, <1>6
<1> QED BY <1>7 DEF extent, width, count

\* The ranges of a tile group are the columns within reach, each once; and its
\* shard tells a range.
LEMMA RangesCover ==
  ASSUME NEW p, WellFormed(p), NEW e, NEW g
  PROVE  /\ \A r \in Ranges(p, e, g) :
              /\ r.start \in Nat /\ r.end \in Nat
              /\ r.shard \in 0 .. Shape(p, e).shards - 1
              /\ r = Cut(r.shard, r.start, r.end)
         /\ \A r, q \in Ranges(p, e, g) : r.shard = q.shard => r = q
         /\ \A column \in Nat :
              /\ column < Reach(p, e, g)
                   <=> \E r \in Ranges(p, e, g) : r.start <= column /\ column < r.end
              /\ \A r, q \in Ranges(p, e, g) :
                   /\ r.start <= column /\ column < r.end
                   /\ q.start <= column /\ column < q.end
                   => r = q
<1> DEFINE extent == Extent(p, g)
           width == Width(Shape(p, e), g)
           count == Shape(p, e).shards
           shards == ShardsOf(extent, width, count)
<1>1. extent \in Nat \ {0} /\ width \in Nat \ {0} /\ count \in Nat \ {0}
  BY ShapeType
<1>2. Ranges(p, e, g) = {CutAt(extent, width, s) : s \in shards}
  BY RangesAre
<1>3. Reach(p, e, g) = Least(extent, width * count)
  BY DEF Reach
<1> HIDE DEF extent, width, count
<1>4. ASSUME NEW s \in shards
      PROVE  LET r == CutAt(extent, width, s)
             IN  /\ s \in Nat /\ s < count /\ s * width < extent
                 /\ r.shard = s /\ r.start = s * width /\ r.start \in Nat
                 /\ r.end = Least(extent, (s + 1) * width) /\ r.end \in Nat
                 /\ r = Cut(r.shard, r.start, r.end)
  <2>1. s \in Nat /\ s < count /\ s * width < extent /\ s * width \in Nat /\ (s + 1) * width \in Nat
    BY <1>1 DEF ShardsOf
  <2> QED BY <1>1, <2>1 DEF CutAt, Cut, Least
<1>5. ASSUME NEW s \in shards, NEW t \in shards, NEW column \in Nat,
             s * width <= column, column < (s + 1) * width,
             t * width <= column, column < (t + 1) * width
      PROVE  s = t
  <2>1. s \in Nat /\ t \in Nat
    BY <1>4
  <2>2. s * width \in Nat /\ t * width \in Nat /\ (s + 1) * width \in Nat /\ (t + 1) * width \in Nat
    BY <1>1, <2>1
  <2>3. (s < t => (s + 1) * width <= t * width) /\ (t < s => (t + 1) * width <= s * width)
    BY <1>1, <2>1, Multiples
  <2> QED BY <1>5, <2>1, <2>2, <2>3
<1>6. ASSUME NEW column \in Nat
      PROVE  column < Least(extent, width * count)
               <=> \E s \in shards : s * width <= column /\ column < Least(extent, (s + 1) * width)
  <2>1. ASSUME column < Least(extent, width * count)
        PROVE \E s \in shards : s * width <= column /\ column < Least(extent, (s + 1) * width)
    <3>1. PICK s \in Nat : s * width <= column /\ column < (s + 1) * width
      BY <1>1, ShardOfColumn
    <3>2. width * count = count * width /\ count * width \in Nat /\ s * width \in Nat /\ (s + 1) * width \in Nat
      BY <1>1, <3>1
    <3>3. column < extent /\ column < count * width
      BY <1>1, <2>1, <3>2 DEF Least
    <3>4. count < s => (count + 1) * width <= s * width
      BY <1>1, Multiples
    <3>5. (count + 1) * width = count * width + width
      BY <1>1, Multiples
    <3>6. s < count
      BY <1>1, <3>1, <3>2, <3>3, <3>4, <3>5
    <3>7. s \in shards
      BY <1>1, <3>1, <3>2, <3>3, <3>6 DEF ShardsOf
    <3> QED BY <1>1, <3>1, <3>2, <3>3, <3>7 DEF Least
  <2>2. ASSUME NEW s \in shards, s * width <= column, column < Least(extent, (s + 1) * width)
        PROVE  column < Least(extent, width * count)
    <3>1. s \in Nat /\ s < count
      BY <1>4
    <3>2. (s + 1) * width <= count * width
      BY <1>1, <3>1, Multiples
    <3>3. width * count = count * width /\ count * width \in Nat /\ (s + 1) * width \in Nat
      BY <1>1, <3>1
    <3> QED BY <1>1, <2>2, <3>2, <3>3 DEF Least
  <2> QED BY <2>1, <2>2
<1> HIDE DEF shards
<1>7. ASSUME NEW r \in Ranges(p, e, g)
      PROVE  /\ r.shard \in shards /\ r = CutAt(extent, width, r.shard)
             /\ r.shard \in Nat /\ r.shard < count
             /\ r.start = r.shard * width /\ r.start \in Nat
             /\ r.end = Least(extent, (r.shard + 1) * width) /\ r.end \in Nat
             /\ r = Cut(r.shard, r.start, r.end)
  <2>1. PICK s \in shards : r = CutAt(extent, width, s)
    BY <1>2
  <2> QED BY <1>4, <2>1
<1>8. \A r \in Ranges(p, e, g) :
        /\ r.start \in Nat /\ r.end \in Nat
        /\ r.shard \in 0 .. count - 1
        /\ r = Cut(r.shard, r.start, r.end)
  BY <1>1, <1>7
<1>9. \A r, q \in Ranges(p, e, g) : r.shard = q.shard => r = q
  BY <1>7
<1>10. ASSUME NEW column \in Nat
       PROVE  column < Reach(p, e, g)
                <=> \E r \in Ranges(p, e, g) : r.start <= column /\ column < r.end
  <2>1. ASSUME NEW s \in shards, s * width <= column, column < Least(extent, (s + 1) * width)
        PROVE  \E r \in Ranges(p, e, g) : r.start <= column /\ column < r.end
    <3>1. CutAt(extent, width, s) \in Ranges(p, e, g)
      BY <1>2
    <3> QED BY <1>4, <2>1, <3>1
  <2>2. ASSUME NEW r \in Ranges(p, e, g), r.start <= column, column < r.end
        PROVE  \E s \in shards : s * width <= column /\ column < Least(extent, (s + 1) * width)
    BY <1>7, <2>2
  <2> QED BY <1>3, <1>6, <2>1, <2>2
<1>11. ASSUME NEW column \in Nat, NEW r \in Ranges(p, e, g), NEW q \in Ranges(p, e, g),
              r.start <= column, column < r.end, q.start <= column, column < q.end
       PROVE  r = q
  <2>1. ASSUME NEW x \in Ranges(p, e, g), column < x.end PROVE column < (x.shard + 1) * width
    <3>1. (x.shard + 1) * width \in Nat
      BY <1>1, <1>7
    <3> QED BY <1>1, <1>7, <2>1, <3>1 DEF Least
  <2>2. r.shard = q.shard
    BY <1>5, <1>7, <1>11, <2>1
  <2> QED BY <1>9, <2>2
<1> QED BY <1>8, <1>9, <1>10, <1>11 DEF count

-----------------------------------------------------------------------------
(* The model of a plan *)

\* g is the table of the lists that Lower makes of the subsets of S.
IsListing(g, S) ==
  g = [s \in SUBSET S |-> IF s = {} THEN <<>> ELSE Append(g[Rest(s)], Pick(s).tile)]

Listings(S) == CHOOSE g : IsListing(g, S)

LEMMA LowerDef ==
  ASSUME NEW p PROVE Lower(p) = Listings(Tiles(p))[Tiles(p)]
BY Zenon DEF Lower, FoldSet, MapThenFoldSet, Listings, IsListing, Pick, Rest

LEMMA ListingUnique ==
  ASSUME NEW S, IsFiniteSet(S), NEW g, NEW h, IsListing(g, S), IsListing(h, S)
  PROVE  g = h
<1>1. /\ g = [s \in SUBSET S |-> g[s]] /\ h = [s \in SUBSET S |-> h[s]]
      /\ \A s \in SUBSET S :
           /\ g[s] = IF s = {} THEN <<>> ELSE Append(g[Rest(s)], Pick(s).tile)
           /\ h[s] = IF s = {} THEN <<>> ELSE Append(h[Rest(s)], Pick(s).tile)
  BY DEF IsListing
<1> DEFINE Bad == {s \in SUBSET S : g[s] # h[s]}
<1>0. Bad \in SUBSET SUBSET S
  OBVIOUS
<1>2. ASSUME Bad # {} PROVE FALSE
  <2>1. PICK s \in Bad : \A u \in SUBSET s : u # s => u \notin Bad
    <3> HIDE DEF Bad
    <3> QED BY <1>0, <1>2, SmallestException
  <2>2. s # {}
    BY <1>1, <2>1
  <2>3. g[Rest(s)] = h[Rest(s)]
    BY <2>1, <2>2, RestIsLess
  <2> QED BY <1>1, <2>1, <2>2, <2>3
<1>3. \A s \in SUBSET S : g[s] = h[s]
  BY <1>2
<1> QED BY <1>1, <1>3

LEMMA ListingRestricts ==
  ASSUME NEW S, NEW g, IsListing(g, S), NEW T \in SUBSET S
  PROVE  IsListing([s \in SUBSET T |-> g[s]], T)
<1> DEFINE h == [s \in SUBSET T |-> g[s]]
<1>1. \A s \in SUBSET S : g[s] = IF s = {} THEN <<>> ELSE Append(g[Rest(s)], Pick(s).tile)
  BY DEF IsListing
<1>2. \A s \in SUBSET T : h[Rest(s)] = g[Rest(s)]
  BY RestIsLess
<1>3. h = [s \in SUBSET T |-> IF s = {} THEN <<>> ELSE Append(h[Rest(s)], Pick(s).tile)]
  BY <1>1, <1>2
<1> QED BY <1>3 DEF IsListing

LEMMA ListingExists ==
  ASSUME NEW S, IsFiniteSet(S)
  PROVE  \A s \in SUBSET S : IsListing(Listings(s), s)
<1> DEFINE Bad == {s \in SUBSET S : ~ IsListing(Listings(s), s)}
<1>0. Bad \in SUBSET SUBSET S
  OBVIOUS
<1>1. ASSUME Bad # {} PROVE FALSE
  <2>1. PICK s \in Bad : \A u \in SUBSET s : u # s => u \notin Bad
    <3> HIDE DEF Bad
    <3> QED BY <1>0, <1>1, SmallestException
  <2>2. \A u \in SUBSET s : u # s => IsListing(Listings(u), u)
    BY <2>1
  <2> DEFINE value(u) ==
               IF u # s THEN Listings(u)[u]
               ELSE IF s = {} THEN <<>>
               ELSE Append(Listings(Rest(s))[Rest(s)], Pick(s).tile)
             g == [u \in SUBSET s |-> value(u)]
  <2>3. ASSUME NEW u \in SUBSET s, u # {}
        PROVE  g[Rest(u)] = Listings(Rest(u))[Rest(u)]
    <3>1. Rest(u) \in SUBSET s /\ Rest(u) # s
      BY <2>3, RestIsLess
    <3> QED BY <3>1
  <2>4. ASSUME NEW u \in SUBSET s, u # s, u # {}
        PROVE  Listings(u)[Rest(u)] = Listings(Rest(u))[Rest(u)]
    <3>0. Rest(u) \in SUBSET u /\ Rest(u) \in SUBSET s /\ Rest(u) # s
      BY <2>4, RestIsLess
    <3>a. IsListing(Listings(u), u)
      BY <2>2, <2>4
    <3>1. IsListing([v \in SUBSET Rest(u) |-> Listings(u)[v]], Rest(u))
      BY <3>0, <3>a, ListingRestricts
    <3>2. IsListing(Listings(Rest(u)), Rest(u))
      BY <2>2, <3>0
    <3>3. IsFiniteSet(Rest(u))
      BY <2>1, <3>0, FS_Subset
    <3>4. Listings(Rest(u)) = [v \in SUBSET Rest(u) |-> Listings(u)[v]]
      BY <3>1, <3>2, <3>3, ListingUnique
    <3> QED BY <3>4
  <2>5. \A u \in SUBSET s : g[u] = value(u)
    OBVIOUS
  <2>6. ASSUME NEW u \in SUBSET s
        PROVE  value(u) = IF u = {} THEN <<>> ELSE Append(g[Rest(u)], Pick(u).tile)
    <3>1. CASE u = s
      BY <2>3, <3>1
    <3>2. CASE u # s
      <4>1. Listings(u)[u] = IF u = {} THEN <<>> ELSE Append(Listings(u)[Rest(u)], Pick(u).tile)
        BY <2>2, <3>2 DEF IsListing
      <4> HIDE DEF g
      <4> QED BY <2>3, <2>4, <3>2, <4>1
    <3> QED BY <3>1, <3>2
  <2>7. g = [u \in SUBSET s |-> IF u = {} THEN <<>> ELSE Append(g[Rest(u)], Pick(u).tile)]
    <3> HIDE DEF value
    <3>1. g = [u \in SUBSET s |-> value(u)]
      OBVIOUS
    <3> HIDE DEF g
    <3> QED BY <2>6, <3>1
  <2>8. IsListing(g, s)
    <3> HIDE DEF g
    <3> QED BY <2>7 DEF IsListing
  <2>9. IsListing(Listings(s), s)
    <3> HIDE DEF g
    <3> QED BY <2>8 DEF Listings
  <2> QED BY <2>1, <2>9
<1> QED BY <1>1

\* The list of a finite set has every tile of its entries and no other.
Has(list, s) ==
  /\ list \in Seq({x.tile : x \in s})
  /\ \A x \in s : \E i \in DOMAIN list : list[i] = x.tile

LEMMA ListingHas ==
  ASSUME NEW S, IsFiniteSet(S) PROVE Has(Listings(S)[S], S)
<1> DEFINE g == Listings(S)
           Bad == {s \in SUBSET S : ~Has(g[s], s)}
<1>0. Bad \in SUBSET SUBSET S
  OBVIOUS
<1>1. \A s \in SUBSET S : g[s] = IF s = {} THEN <<>> ELSE Append(g[Rest(s)], Pick(s).tile)
  <2>1. IsListing(g, S)
    BY ListingExists
  <2> HIDE DEF g
  <2> QED BY <2>1 DEF IsListing
<1> HIDE DEF g
<1>2. ASSUME Bad # {} PROVE FALSE
  <2>1. PICK s \in Bad : \A u \in SUBSET s : u # s => u \notin Bad
    <3> HIDE DEF Bad
    <3> QED BY <1>0, <1>2, SmallestException
  <2>2. s \in SUBSET S /\ ~Has(g[s], s)
    BY <2>1
  <2>3. CASE s = {}
    <3>1. g[s] = <<>>
      BY <1>1, <2>2, <2>3
    <3> QED BY <2>2, <2>3, <3>1 DEF Has
  <2>4. CASE s # {}
    <3>1. Rest(s) \in SUBSET s /\ Pick(s) \in s /\ Rest(s) # s /\ s = Rest(s) \union {Pick(s)}
      BY <2>4, RestIsLess DEF Rest
    <3>2. Has(g[Rest(s)], Rest(s))
      BY <2>1, <2>2, <3>1
    <3>3. g[s] = Append(g[Rest(s)], Pick(s).tile)
      BY <1>1, <2>2, <2>4
    <3> DEFINE l == g[Rest(s)]
               t == Pick(s).tile
               T == {x.tile : x \in s}
    <3>4. l \in Seq(T) /\ t \in T
      BY <3>1, <3>2 DEF Has
    <3> HIDE DEF l, t, T
    <3>5. /\ Append(l, t) \in Seq(T) /\ Append(l, t)[Len(l) + 1] = t
          /\ Len(l) + 1 \in DOMAIN Append(l, t)
          /\ \A i \in DOMAIN l : i \in DOMAIN Append(l, t) /\ Append(l, t)[i] = l[i]
      BY <3>4
    <3>6. ASSUME NEW x \in s PROVE \E i \in DOMAIN Append(l, t) : Append(l, t)[i] = x.tile
      <4>1. CASE x = Pick(s)
        BY <3>5, <4>1 DEF t
      <4>2. CASE x \in Rest(s)
        <5>1. PICK i \in DOMAIN l : l[i] = x.tile
          BY <3>2, <4>2 DEF Has, l
        <5> QED BY <3>5, <5>1
      <4> QED BY <3>1, <4>1, <4>2
    <3>7. Has(g[s], s)
      BY <3>3, <3>5, <3>6 DEF Has, l, t, T
    <3> QED BY <2>2, <3>7
  <2> QED BY <2>3, <2>4
<1>3. S \in SUBSET S /\ S \notin Bad
  BY <1>2
<1> QED BY <1>3 DEF g

LEMMA TilesAre ==
  ASSUME NEW p, NEW x
  PROVE  x \in Tiles(p)
           <=> \E l \in 0 .. p.layers - 1, e \in 0 .. Budget(p) - 1, n \in DOMAIN p.groups :
                 \E r \in Ranges(p, e, p.groups[n]) : x = Entry(p, l, e, n, r)
<1> DEFINE group(l, e, n) == {Entry(p, l, e, n, r) : r \in Ranges(p, e, p.groups[n])}
           groups == {group(l, e, n) : l \in 0 .. p.layers - 1, e \in 0 .. Budget(p) - 1,
                                       n \in DOMAIN p.groups}
<1>1. Tiles(p) = UNION groups
  BY DEF Tiles
<1>2. \A l, e, n : x \in group(l, e, n) <=> \E r \in Ranges(p, e, p.groups[n]) : x = Entry(p, l, e, n, r)
  OBVIOUS
<1> HIDE DEF group
<1>3. x \in UNION groups <=> \E l \in 0 .. p.layers - 1, e \in 0 .. Budget(p) - 1,
                                n \in DOMAIN p.groups : x \in group(l, e, n)
  OBVIOUS
<1> HIDE DEF groups
<1> QED BY <1>1, <1>2, <1>3

LEMMA BudgetType ==
  ASSUME NEW p, WellFormed(p) PROVE Budget(p) \in Nat \ {0}
BY DEF WellFormed, Budget, Least

LEMMA TilesAreFinite ==
  ASSUME NEW p, WellFormed(p) PROVE IsFiniteSet(Tiles(p))
<1> DEFINE most == p.tile.shards + p.hot.shards + p.cold.shards
           L == 0 .. p.layers - 1
           E == 0 .. Budget(p) - 1
           D == DOMAIN p.groups
           S == 0 .. most
           Places == (L \X E) \X (D \X S)
           place(x) == <<<<x.tile.id[1], x.tile.id[2]>>, <<x.nth, x.tile.id[4]>>>>
           f == [x \in Tiles(p) |-> place(x)]
<1>1. /\ p.layers \in Nat /\ Budget(p) \in Nat /\ most \in Nat
      /\ \A e : Shape(p, e).shards \in Nat /\ Shape(p, e).shards - 1 < most
  <2>1. p.tile.shards \in Nat /\ p.hot.shards \in Nat /\ p.cold.shards \in Nat
    BY DEF WellFormed, Shapes
  <2>2. \A e : Shape(p, e) \in {p.tile, p.hot, p.cold}
    BY DEF Shape
  <2>3. ASSUME NEW e PROVE Shape(p, e).shards \in Nat /\ Shape(p, e).shards <= most
    <3>1. \/ Shape(p, e).shards = p.tile.shards \/ Shape(p, e).shards = p.hot.shards
          \/ Shape(p, e).shards = p.cold.shards
      BY <2>2
    <3> QED BY <2>1, <3>1
  <2>4. p.layers \in Nat /\ Budget(p) \in Nat
    BY BudgetType DEF WellFormed
  <2> QED BY <2>1, <2>3, <2>4
<1>2. IsFiniteSet(Places)
  <2>1. IsFiniteSet(L) /\ IsFiniteSet(E) /\ IsFiniteSet(S)
    <3>1. {0, p.layers - 1, Budget(p) - 1, most} \subseteq Int
      BY <1>1
    <3> HIDE DEF most
    <3> QED BY <3>1, FS_Interval
  <2>2. IsFiniteSet(D)
    <3>1. Len(p.groups) \in Nat /\ D = 1 .. Len(p.groups)
      BY DEF WellFormed
    <3> QED BY <3>1, FS_Interval
  <2> HIDE DEF L, E, D, S
  <2>3. IsFiniteSet(L \X E) /\ IsFiniteSet(D \X S)
    BY <2>1, <2>2, FS_Product
  <2> QED BY <2>3, FS_Product
<1>3. ASSUME NEW x \in Tiles(p)
      PROVE  \E l \in L, e \in E, n \in D :
               \E r \in Ranges(p, e, p.groups[n]) :
                 /\ x = Entry(p, l, e, n, r) /\ r.shard \in S
                 /\ place(x) = <<<<l, e>>, <<n, r.shard>>>>
  <2>1. PICK l \in L, e \in E, n \in D : \E r \in Ranges(p, e, p.groups[n]) : x = Entry(p, l, e, n, r)
    BY TilesAre
  <2>2. PICK r \in Ranges(p, e, p.groups[n]) : x = Entry(p, l, e, n, r)
    BY <2>1
  <2>3. r.shard \in 0 .. Shape(p, e).shards - 1
    BY RangesCover
  <2>4. r.shard \in S
    BY <1>1, <2>3
  <2>5. place(x) = <<<<l, e>>, <<n, r.shard>>>>
    BY <2>2 DEF Entry
  <2> QED BY <2>2, <2>4, <2>5
<1> HIDE DEF place, L, E, D, S
<1>4. ASSUME NEW x \in Tiles(p), NEW y \in Tiles(p), place(x) = place(y)
      PROVE  x = y
  <2>1. PICK l \in L, e \in E, n \in D :
          \E r \in Ranges(p, e, p.groups[n]) :
            x = Entry(p, l, e, n, r) /\ place(x) = <<<<l, e>>, <<n, r.shard>>>>
    BY <1>3
  <2>2. PICK l2 \in L, e2 \in E, n2 \in D :
          \E r \in Ranges(p, e2, p.groups[n2]) :
            y = Entry(p, l2, e2, n2, r) /\ place(y) = <<<<l2, e2>>, <<n2, r.shard>>>>
    BY <1>3
  <2>3. PICK r \in Ranges(p, e, p.groups[n]) :
          x = Entry(p, l, e, n, r) /\ place(x) = <<<<l, e>>, <<n, r.shard>>>>
    BY <2>1
  <2>4. PICK r2 \in Ranges(p, e2, p.groups[n2]) :
          y = Entry(p, l2, e2, n2, r2) /\ place(y) = <<<<l2, e2>>, <<n2, r2.shard>>>>
    BY <2>2
  <2>5. l = l2 /\ e = e2 /\ n = n2 /\ r.shard = r2.shard
    BY <1>4, <2>3, <2>4
  <2>6. r = r2
    BY <2>5, RangesCover
  <2> QED BY <2>3, <2>4, <2>5, <2>6
<1>5. ASSUME NEW x \in Tiles(p) PROVE place(x) \in Places
  BY <1>3
<1>6. f \in Injection(Tiles(p), Places)
  BY <1>4, <1>5 DEF Injection, IsInjective
<1> HIDE DEF f, Places
<1> QED BY <1>2, <1>6, FS_Injection

\* The tiles of the model that a plan is lowered to.
LEMMA LoweredTiles ==
  ASSUME NEW p \in Lowerable
  PROVE  /\ Lower(p) \in Seq({x.tile : x \in Tiles(p)})
         /\ \A x \in Tiles(p) : \E i \in DOMAIN Lower(p) : Lower(p)[i] = x.tile
<1>1. Has(Lower(p), Tiles(p))
  BY LowerableIsWellFormed, TilesAreFinite, LowerDef, ListingHas
<1> QED BY <1>1 DEF Has

-----------------------------------------------------------------------------
\* The keys of the maps are the ids laid out so far.
KeysInv == DOMAIN weights = {mir[i].id : i \in DOMAIN mir \ pending}

LEMMA KeysInvStep == TypeOK /\ KeysInv /\ [Next]_vars => KeysInv'
<1> SUFFICES ASSUME TypeOK, KeysInv, [Next]_vars PROVE KeysInv'
  OBVIOUS
<1>1. CASE LayNext
  <2>1. PICK i \in pending : Lay(i) /\ pending' = pending \ {i} /\ mir' = mir
    BY <1>1 DEF LayNext
  <2>2. DOMAIN weights' = DOMAIN weights \union {mir[i].id}
    BY <2>1 DEF Lay, Assign, Put
  <2>3. i \in DOMAIN mir
    BY <2>1 DEF TypeOK
  <2> QED BY <2>1, <2>2, <2>3 DEF KeysInv
<1>2. CASE Validate \/ Finish \/ UNCHANGED vars
  BY <1>2 DEF Validate, Finish, vars, KeysInv
<1> QED BY <1>1, <1>2 DEF Next

LEMMA KeysInvInit == Init => KeysInv
BY DEF Init, KeysInv, EmptyMap

\* The ids of a manifest that is finished, of a plan's model.
LEMMA FinishedIds ==
  ASSUME KeysInv, DoneInv, pc = "done", NEW p \in Lowerable, mir = Lower(p), NEW id
  PROVE  id \in DOMAIN weights
           <=> \E l \in 0 .. p.layers - 1, e \in 0 .. Budget(p) - 1, n \in DOMAIN p.groups :
                 \E r \in Ranges(p, e, p.groups[n]) :
                   id = <<l, e, p.groups[n], r.shard, r.start, r.end>>
<1>1. DOMAIN weights = {mir[i].id : i \in DOMAIN mir}
  BY DEF KeysInv, DoneInv
<1>2. id \in DOMAIN weights <=> \E x \in Tiles(p) : id = x.tile.id
  <2>1. ASSUME NEW i \in DOMAIN mir PROVE \E x \in Tiles(p) : mir[i] = x.tile
    <3> DEFINE T == {x.tile : x \in Tiles(p)}
    <3>1. mir \in Seq(T)
      BY LoweredTiles
    <3>2. mir[i] \in T
      <4> HIDE DEF T
      <4> QED BY <2>1, <3>1
    <3> QED BY <3>2
  <2>2. ASSUME NEW x \in Tiles(p) PROVE \E i \in DOMAIN mir : mir[i] = x.tile
    BY <2>2, LoweredTiles
  <2> QED BY <1>1, <2>1, <2>2
<1>3. ASSUME NEW x \in Tiles(p), id = x.tile.id
      PROVE  \E l \in 0 .. p.layers - 1, e \in 0 .. Budget(p) - 1, n \in DOMAIN p.groups :
               \E r \in Ranges(p, e, p.groups[n]) :
                 id = <<l, e, p.groups[n], r.shard, r.start, r.end>>
  <2>1. PICK l \in 0 .. p.layers - 1, e \in 0 .. Budget(p) - 1, n \in DOMAIN p.groups :
          \E r \in Ranges(p, e, p.groups[n]) : x = Entry(p, l, e, n, r)
    BY TilesAre
  <2>2. PICK r \in Ranges(p, e, p.groups[n]) : x = Entry(p, l, e, n, r)
    BY <2>1
  <2>3. id = <<l, e, p.groups[n], r.shard, r.start, r.end>>
    BY <1>3, <2>2 DEF Entry
  <2> QED BY <2>3
<1>4. ASSUME NEW l \in 0 .. p.layers - 1, NEW e \in 0 .. Budget(p) - 1,
             NEW n \in DOMAIN p.groups, NEW r \in Ranges(p, e, p.groups[n]),
             id = <<l, e, p.groups[n], r.shard, r.start, r.end>>
      PROVE  \E x \in Tiles(p) : id = x.tile.id
  <2>1. Entry(p, l, e, n, r) \in Tiles(p)
    BY TilesAre
  <2>2. Entry(p, l, e, n, r).tile.id = id
    BY <1>4 DEF Entry
  <2> QED BY <2>1, <2>2
<1> QED BY <1>2, <1>3, <1>4

LEMMA FinishedCovers ==
  ASSUME KeysInv, DoneInv, pc = "done", NEW p \in Lowerable, mir = Lower(p),
         NEW l \in Int, NEW e \in Int, NEW g, NEW column \in Nat
  PROVE  Cardinality(Covering(l, e, g, column))
           = IF /\ 0 <= l /\ l < p.layers /\ 0 <= e /\ e < Budget(p) /\ g \in Listed(p)
                /\ column < Reach(p, e, g)
             THEN 1 ELSE 0
<1> DEFINE id(r) == <<l, e, g, r.shard, r.start, r.end>>
           within == 0 <= l /\ l < p.layers /\ 0 <= e /\ e < Budget(p) /\ g \in Listed(p)
<1>0. WellFormed(p) /\ p.layers \in Nat /\ Budget(p) \in Nat
  BY LowerableIsWellFormed, BudgetType DEF WellFormed
<1>1. ASSUME NEW i \in Covering(l, e, g, column)
      PROVE  within /\ \E r \in Ranges(p, e, g) : /\ i = id(r)
                                                  /\ r.start <= column /\ column < r.end
  <2>1. /\ i \in DOMAIN weights /\ i[1] = l /\ i[2] = e /\ i[3] = g
        /\ i[5] <= column /\ column < i[6]
    BY DEF Covering
  <2>2. PICK l2 \in 0 .. p.layers - 1, e2 \in 0 .. Budget(p) - 1, n \in DOMAIN p.groups :
          \E r \in Ranges(p, e2, p.groups[n]) :
            i = <<l2, e2, p.groups[n], r.shard, r.start, r.end>>
    BY <2>1, FinishedIds
  <2>3. PICK r \in Ranges(p, e2, p.groups[n]) :
          i = <<l2, e2, p.groups[n], r.shard, r.start, r.end>>
    BY <2>2
  <2>4. /\ l2 = l /\ e2 = e /\ p.groups[n] = g /\ i = id(r)
        /\ r.start <= column /\ column < r.end
    BY <2>1, <2>3
  <2>5. within
    BY <1>0, <2>4 DEF Listed
  <2> QED BY <2>3, <2>4, <2>5
<1>2. ASSUME within, NEW r \in Ranges(p, e, g), r.start <= column, column < r.end
      PROVE  id(r) \in Covering(l, e, g, column)
  <2>1. PICK n \in DOMAIN p.groups : p.groups[n] = g
    BY <1>2 DEF Listed
  <2>2. l \in 0 .. p.layers - 1 /\ e \in 0 .. Budget(p) - 1
    BY <1>0, <1>2
  <2>3. id(r) \in DOMAIN weights
    BY <1>2, <2>1, <2>2, FinishedIds
  <2> QED BY <1>2, <2>3 DEF Covering
<1>3. CASE within /\ column < Reach(p, e, g)
  <2>1. PICK r \in Ranges(p, e, g) : r.start <= column /\ column < r.end
    BY <1>0, <1>3, RangesCover
  <2>2. ASSUME NEW q \in Ranges(p, e, g), q.start <= column, column < q.end PROVE q = r
    BY <1>0, <2>1, <2>2, RangesCover
  <2>3. Covering(l, e, g, column) = {id(r)}
    <3>1. id(r) \in Covering(l, e, g, column)
      BY <1>2, <1>3, <2>1
    <3>2. \A i \in Covering(l, e, g, column) : i = id(r)
      BY <1>1, <2>2
    <3> QED BY <3>1, <3>2
  <2> QED BY <1>3, <2>3, FS_Singleton
<1>4. CASE ~(within /\ column < Reach(p, e, g))
  <2>1. ASSUME NEW i \in Covering(l, e, g, column) PROVE FALSE
    <3>1. PICK r \in Ranges(p, e, g) : r.start <= column /\ column < r.end
      BY <1>1
    <3>2. within /\ column < Reach(p, e, g)
      BY <1>0, <1>1, <3>1, RangesCover
    <3> QED BY <1>4, <3>2
  <2>2. Covering(l, e, g, column) = {}
    BY <2>1
  <2> QED BY <1>4, <2>2, FS_EmptySet
<1> QED BY <1>3, <1>4

\* The columns a plan pays for are in exactly one tile each.
THEOREM ColumnsAreCoveredOnce == Spec => []ColumnsCoveredOnce
<1>1. TypeOK /\ KeysInv /\ DoneInv => ColumnsCoveredOnce
  <2> SUFFICES ASSUME KeysInv, DoneInv, pc = "done", NEW p \in Lowerable, mir = Lower(p),
                      NEW l \in 0 .. p.layers, NEW e \in 0 .. p.experts,
                      NEW g \in {Attention, Down, GateUp},
                      NEW column \in 0 .. Extent(p, g) + 1
               PROVE  Cardinality(Covering(l, e, g, column))
                        = IF /\ l < p.layers /\ e < Budget(p) /\ g \in Listed(p)
                             /\ column < Reach(p, e, g)
                          THEN 1 ELSE 0
    BY DEF ColumnsCoveredOnce
  <2>1. WellFormed(p) /\ Extent(p, g) \in Nat /\ p.layers \in Nat /\ p.experts \in Nat
    BY LowerableIsWellFormed, ShapeType DEF WellFormed
  <2>2. l \in Int /\ 0 <= l /\ e \in Int /\ 0 <= e /\ column \in Nat
    BY <2>1
  <2> QED BY <2>2, FinishedCovers
<1>2. Init => KeysInv /\ DoneInv
  BY KeysInvInit DEF Init, DoneInv
<1>3. IInv /\ KeysInv /\ DoneInv /\ [Next]_vars => KeysInv' /\ DoneInv'
  BY KeysInvStep DEF IInv, DoneInv, Next, Validate, LayNext, Finish, vars
<1>4. IInv => TypeOK
  BY DEF IInv
<1> QED BY <1>1, <1>2, <1>3, <1>4, IInvAlways, PTL DEF Spec

-----------------------------------------------------------------------------
(* The order of a manifest *)

\* SumOf adds up the lengths of a field.
Lengths(field) == [j \in DOMAIN mir |-> mir[j][field]]
TotalOf(field, positions) == Totals(Lengths(field), positions)[positions]

LEMMA SumOfIsTotal ==
  ASSUME NEW field, NEW S \in SUBSET DOMAIN mir, IsFiniteSet(S)
  PROVE  SumOf(field, S) = TotalOf(field, S)
<1> DEFINE f == Lengths(field)
           IsSum(g) == g = [s \in SUBSET S |-> IF s = {} THEN 0
                                               ELSE mir[Pick(s)][field] + g[Rest(s)]]
           sums == CHOOSE g : IsSum(g)
<1>1. SumOf(field, S) = sums[S]
  BY Zenon DEF SumOf, MapThenSumSet, MapThenFoldSet, Pick, Rest
<1>2. \A s \in SUBSET S : s # {} => f[Pick(s)] = mir[Pick(s)][field]
  BY RestIsLess DEF Lengths
<1> HIDE DEF f
<1>3. ASSUME NEW g, IsSum(g) PROVE IsTotal(g, f, S)
  <2>1. g = [s \in SUBSET S |-> IF s = {} THEN 0 ELSE f[Pick(s)] + g[Rest(s)]]
    BY <1>2, <1>3
  <2> QED BY <2>1 DEF IsTotal
<1>4. IsTotal(Totals(f, S), f, S)
  BY TotalExists
<1>5. IsSum(Totals(f, S))
  <2> DEFINE g == Totals(f, S)
  <2>1. g = [s \in SUBSET S |-> IF s = {} THEN 0 ELSE f[Pick(s)] + g[Rest(s)]]
    BY <1>4 DEF IsTotal
  <2> HIDE DEF g
  <2>2. IsSum(g)
    BY <1>2, <2>1
  <2> QED BY <2>2 DEF g
<1> HIDE DEF IsSum
<1>6. IsSum(sums)
  BY <1>5
<1>7. sums = Totals(f, S)
  <2> HIDE DEF sums
  <2> QED BY <1>3, <1>4, <1>6, TotalUnique
<1> QED BY <1>1, <1>7 DEF TotalOf, f

\* What has been laid out comes before what has not; the blobs end where the
\* laid tiles end, and each of them begins where the smaller ones end.
Laid == DOMAIN mir \ pending

PackInv ==
  /\ \A i \in Laid, j \in pending : Before(i, j)
  /\ AllDistinct =>
       /\ offset = TotalOf("bytes", Laid) /\ scaleOffset = TotalOf("scale", Laid)
       /\ \A i \in Laid :
            /\ mir[i].id \in DOMAIN weights
            /\ weights[mir[i].id] = [at |-> TotalOf("bytes", Smaller(i)), size |-> mir[i].bytes]
            /\ mir[i].scale > 0 =>
                 /\ mir[i].id \in DOMAIN scales
                 /\ scales[mir[i].id].at = TotalOf("scale", Smaller(i))

LEMMA IdLessIsAsymmetric ==
  ASSUME NEW a \in Ids, NEW b \in Ids PROVE ~(IdLess(a, b) /\ IdLess(b, a))
<1> SUFFICES ASSUME IdLess(a, b), IdLess(b, a) PROVE FALSE
  OBVIOUS
<1>1. PICK m \in 1 .. 6 : a[m] < b[m] /\ \A k \in 1 .. m - 1 : a[k] = b[k]
  BY DEF IdLess
<1>2. PICK n \in 1 .. 6 : b[n] < a[n] /\ \A k \in 1 .. n - 1 : b[k] = a[k]
  BY DEF IdLess
<1>3. a[m] \in Int /\ b[m] \in Int /\ a[n] \in Int /\ b[n] \in Int
  BY IdAssumption
<1>4. ~(m < n) /\ ~(n < m) /\ m # n
  BY <1>1, <1>2, <1>3
<1> QED BY <1>4

\* The tile that is laid out next has the laid ones before it and no other.
LEMMA NextIsBehindLaid ==
  ASSUME TypeOK, PackInv, AllDistinct, NEW i \in pending, \A j \in pending : Before(i, j)
  PROVE  Smaller(i) = Laid
<1>1. \A j \in DOMAIN mir : mir[j].id \in Ids
  <2>1. \A j \in DOMAIN mir : mir[j] \in Tile
    BY DEF TypeOK
  <2> QED BY <2>1 DEF Tile
<1>2. i \in DOMAIN mir
  BY DEF TypeOK
<1>3. ASSUME NEW j \in Laid PROVE IdLess(mir[j].id, mir[i].id)
  <2>1. Before(j, i) /\ j # i /\ j \in DOMAIN mir
    BY DEF PackInv, Laid
  <2> QED BY <1>2, <2>1 DEF Before, AllDistinct
<1>4. ASSUME NEW j \in pending PROVE ~IdLess(mir[j].id, mir[i].id)
  <2>1. Before(i, j) /\ j \in DOMAIN mir
    BY DEF TypeOK
  <2>2. IdLess(mir[i].id, mir[j].id) \/ j = i
    BY <1>2, <2>1 DEF Before, AllDistinct
  <2> QED BY <1>1, <1>2, <2>1, <2>2, IdLessIsAsymmetric
<1> QED BY <1>3, <1>4 DEF Smaller, Laid

LEMMA LaidTotals ==
  ASSUME IInv, pc = "lay", NEW i \in pending, NEW field \in {"bytes", "scale"}
  PROVE  /\ TotalOf(field, Laid \union {i}) = TotalOf(field, Laid) + mir[i][field]
         /\ TotalOf(field, Laid) \in Nat
<1>1. /\ IsFiniteSet(DOMAIN mir) /\ i \in DOMAIN mir /\ i \notin Laid
      /\ \A j \in DOMAIN mir : mir[j].bytes \in Nat /\ mir[j].scale \in Nat
  <2>1. mir \in Seq(Tile) /\ i \in DOMAIN mir
    BY DEF IInv, TypeOK
  <2>2. DOMAIN mir = 1 .. Len(mir) /\ Len(mir) \in Nat
    BY <2>1
  <2>3. IsFiniteSet(DOMAIN mir)
    BY <2>2, FS_Interval
  <2>4. ASSUME NEW j \in DOMAIN mir PROVE mir[j].bytes \in Nat /\ mir[j].scale \in Nat
    <3>1. mir[j] \in Tile
      BY <2>1
    <3>2. mir[j].bytes > 0 /\ mir[j].scale >= 0
      BY DEF IInv, Validated, Valid
    <3> QED BY <3>1, <3>2 DEF Tile
  <2> QED BY <2>1, <2>3, <2>4 DEF Laid
<1> DEFINE D == DOMAIN mir
           f == Lengths(field)
<1>2. f \in [D -> Nat] /\ f[i] = mir[i][field]
  BY <1>1 DEF Lengths
<1>3. Laid \union {i} \in SUBSET D /\ Laid \in SUBSET D /\ (Laid \union {i}) \ {i} = Laid
  BY <1>1 DEF Laid
<1>4. /\ Totals(f, Laid)[Laid] \in Nat
      /\ Totals(f, Laid \union {i})[Laid \union {i}] = f[i] + Totals(f, Laid)[Laid]
  <2> HIDE DEF D, f
  <2>1. IsFiniteSet(D)
    BY <1>1 DEF D
  <2>2. \A s \in SUBSET D : Totals(f, s)[s] \in Nat
    BY <1>2, <2>1, TotalType
  <2>3. ASSUME NEW s \in SUBSET D, NEW x \in s
        PROVE  Totals(f, s)[s] = f[x] + Totals(f, s \ {x})[s \ {x}]
    BY ONLY <1>2, <2>1, <2>3, TotalTakesAny
  <2>4. i \in Laid \union {i}
    OBVIOUS
  <2>5. Totals(f, Laid \union {i})[Laid \union {i}]
          = f[i] + Totals(f, (Laid \union {i}) \ {i})[(Laid \union {i}) \ {i}]
    BY <1>3, <2>3, <2>4
  <2> QED BY <1>3, <2>2, <2>5
<1>5. f[i] \in Nat
  BY <1>1, <1>2
<1> HIDE DEF f
<1> QED BY <1>2, <1>4, <1>5 DEF TotalOf, f

LEMMA LayPacks ==
  ASSUME IInv, PackInv, pc = "lay", NEW i \in pending, \A j \in pending : Before(i, j),
         Lay(i), pending' = pending \ {i}, mir' = mir
  PROVE  PackInv'
<1>0. i \in DOMAIN mir /\ pending \subseteq DOMAIN mir /\ TypeOK /\ i \notin Laid
  BY DEF IInv, TypeOK, Laid
<1>1. Laid' = Laid \union {i}
  BY <1>0 DEF Laid
<1>2. \A j \in Laid', k \in pending' : Before(j, k)'
  <2>1. \A j, k : Before(j, k)' <=> Before(j, k)
    BY DEF Before
  <2> QED BY <1>1, <2>1 DEF PackInv
<1>3. /\ Lengths("bytes")' = Lengths("bytes") /\ Lengths("scale")' = Lengths("scale")
      /\ \A j : Smaller(j)' = Smaller(j)
      /\ AllDistinct' <=> AllDistinct
  BY DEF Lengths, Smaller, AllDistinct
<1>4. ASSUME AllDistinct
      PROVE  /\ offset' = TotalOf("bytes", Laid)' /\ scaleOffset' = TotalOf("scale", Laid)'
             /\ \A j \in Laid' :
                  /\ mir[j].id \in DOMAIN weights'
                  /\ weights'[mir[j].id] = [at |-> TotalOf("bytes", Smaller(j))', size |-> mir[j].bytes]
                  /\ mir[j].scale > 0 =>
                       /\ mir[j].id \in DOMAIN scales'
                       /\ scales'[mir[j].id].at = TotalOf("scale", Smaller(j))'
  <2>1. Smaller(i) = Laid
    BY <1>0, <1>4, NextIsBehindLaid
  <2>2. /\ TotalOf("bytes", Laid)' = TotalOf("bytes", Laid \union {i})
        /\ TotalOf("scale", Laid)' = TotalOf("scale", Laid \union {i})
        /\ \A j : /\ TotalOf("bytes", Smaller(j))' = TotalOf("bytes", Smaller(j))
                  /\ TotalOf("scale", Smaller(j))' = TotalOf("scale", Smaller(j))
    BY <1>1, <1>3 DEF TotalOf
  <2>3. /\ TotalOf("bytes", Laid \union {i}) = TotalOf("bytes", Laid) + mir[i].bytes
        /\ TotalOf("scale", Laid \union {i}) = TotalOf("scale", Laid) + mir[i].scale
        /\ TotalOf("scale", Laid) \in Nat
    BY LaidTotals
  <2>4. /\ offset = TotalOf("bytes", Laid) /\ scaleOffset = TotalOf("scale", Laid)
        /\ \A j \in Laid :
             /\ mir[j].id \in DOMAIN weights
             /\ weights[mir[j].id] = [at |-> TotalOf("bytes", Smaller(j)), size |-> mir[j].bytes]
             /\ mir[j].scale > 0 =>
                  /\ mir[j].id \in DOMAIN scales
                  /\ scales[mir[j].id].at = TotalOf("scale", Smaller(j))
    BY <1>4 DEF PackInv
  <2>5. \A j \in Laid : mir[j].id # mir[i].id
    BY <1>0, <1>4 DEF AllDistinct, Laid
  <2>6. /\ weights' = Assign(weights, mir[i].id, offset, mir[i].bytes)
        /\ offset' = offset + mir[i].bytes
        /\ \/ mir[i].scale = 0 /\ scales' = scales /\ scaleOffset' = scaleOffset
           \/ /\ scales' = Assign(scales, mir[i].id, scaleOffset, mir[i].scale)
              /\ scaleOffset' = scaleOffset + mir[i].scale
    BY DEF Lay
  <2>7. offset' = TotalOf("bytes", Laid)' /\ scaleOffset' = TotalOf("scale", Laid)'
    BY <2>2, <2>3, <2>4, <2>6
  <2>8. ASSUME NEW j \in Laid'
        PROVE  /\ mir[j].id \in DOMAIN weights'
               /\ weights'[mir[j].id] = [at |-> TotalOf("bytes", Smaller(j)), size |-> mir[j].bytes]
    <3>1. CASE j = i
      BY <2>1, <2>4, <2>6, <3>1 DEF Assign, Put
    <3>2. CASE j \in Laid
      BY <2>4, <2>5, <2>6, <3>2 DEF Assign, Put
    <3> QED BY <1>1, <3>1, <3>2
  <2>9. ASSUME NEW j \in Laid', mir[j].scale > 0
        PROVE  /\ mir[j].id \in DOMAIN scales'
               /\ scales'[mir[j].id].at = TotalOf("scale", Smaller(j))
    <3>1. CASE j = i
      <4>1. scales' = Assign(scales, mir[i].id, scaleOffset, mir[i].scale)
        BY <2>6, <2>9, <3>1
      <4> QED BY <2>1, <2>4, <3>1, <4>1 DEF Assign, Put
    <3>2. CASE j \in Laid
      BY <2>4, <2>5, <2>6, <2>9, <3>2 DEF Assign, Put
    <3> QED BY <1>1, <3>1, <3>2
  <2> QED BY <2>2, <2>7, <2>8, <2>9
<1> QED BY <1>2, <1>3, <1>4 DEF PackInv

\* The tiles of a finished manifest lie in the order of their ids without a
\* gap, in whatever order the model lists them.
THEOREM TilesArePacked == Spec => []PackedInOrder
<1>1. Init => PackInv /\ DoneInv
  <2> SUFFICES ASSUME Init PROVE PackInv /\ DoneInv
    OBVIOUS
  <2>1. Laid = {} /\ offset = 0 /\ scaleOffset = 0 /\ pc = "validate"
    BY DEF Init, Laid
  <2>2. TotalOf("bytes", {}) = 0 /\ TotalOf("scale", {}) = 0
    BY TotalStep, FS_EmptySet DEF TotalOf
  <2> QED BY <2>1, <2>2 DEF PackInv, DoneInv
<1>2. IInv /\ PackInv /\ DoneInv /\ [Next]_vars => PackInv' /\ DoneInv'
  <2> SUFFICES ASSUME IInv, PackInv, DoneInv, [Next]_vars PROVE PackInv' /\ DoneInv'
    OBVIOUS
  <2>1. CASE LayNext
    BY <2>1, LayPacks DEF LayNext, DoneInv
  <2>2. CASE Validate \/ Finish \/ UNCHANGED vars
    <3>1. UNCHANGED <<mir, pending, weights, scales, offset, scaleOffset>>
      BY <2>2 DEF Validate, Finish, vars
    <3>2. DoneInv'
      BY <2>2 DEF Validate, Finish, vars, DoneInv
    <3>3. /\ Laid' = Laid /\ AllDistinct' = AllDistinct
          /\ \A field : Lengths(field)' = Lengths(field)
          /\ \A i : Smaller(i)' = Smaller(i)
          /\ \A i, j : Before(i, j)' = Before(i, j)
      BY <3>1 DEF Laid, AllDistinct, Lengths, Smaller, Before
    <3>4. \A field, positions : TotalOf(field, positions)' = Totals(Lengths(field), positions)[positions]
      BY <3>3 DEF TotalOf
    <3> QED BY <3>1, <3>2, <3>3, <3>4 DEF PackInv, TotalOf
  <2> QED BY <2>1, <2>2 DEF Next
<1>3. IInv /\ PackInv /\ DoneInv => PackedInOrder
  <2> SUFFICES ASSUME TypeOK, PackInv, DoneInv, pc = "done", AllDistinct, NEW i \in DOMAIN mir
               PROVE  /\ weights[mir[i].id]
                           = [at |-> SumOf("bytes", Smaller(i)), size |-> mir[i].bytes]
                      /\ mir[i].scale > 0 =>
                           scales[mir[i].id].at = SumOf("scale", Smaller(i))
    BY DEF PackedInOrder, AllDistinct, IInv
  <2>1. i \in Laid
    BY DEF DoneInv, Laid
  <2>2. Smaller(i) \in SUBSET DOMAIN mir /\ IsFiniteSet(Smaller(i))
    <3>1. DOMAIN mir = 1 .. Len(mir) /\ Len(mir) \in Nat
      BY DEF TypeOK
    <3>2. IsFiniteSet(DOMAIN mir)
      BY <3>1, FS_Interval
    <3>3. Smaller(i) \in SUBSET DOMAIN mir
      BY DEF Smaller
    <3> QED BY <3>2, <3>3, FS_Subset
  <2>3. /\ SumOf("bytes", Smaller(i)) = TotalOf("bytes", Smaller(i))
        /\ SumOf("scale", Smaller(i)) = TotalOf("scale", Smaller(i))
    BY <2>2, SumOfIsTotal
  <2> QED BY <2>1, <2>3 DEF PackInv
<1> QED BY <1>1, <1>2, <1>3, IInvAlways, PTL DEF Spec

-----------------------------------------------------------------------------
(* Checkpoints *)

\* The stage in which the i-th file is written.
StageOf(i) == IF i <= 3 THEN i ELSE i + 1

\* While an export runs, the files it has passed are its own and whole, and all
\* others are older; no file is of an export that has not begun.
Progress ==
  /\ \A i \in 1 .. 6 : files[Files[i]].of <= exports
  /\ stage > 0 =>
       \A i \in 1 .. 6 :
         IF StageOf(i) < stage
         THEN files[Files[i]] = [of |-> exports, whole |-> TRUE]
         ELSE files[Files[i]].of < exports

OrderInv == PrepareTypes /\ Progress /\ WrittenInOrder

\* The six files are different, each is written in the stage it names, and the
\* seventh stage is the copying of shards.
LEMMA FilesAndStages ==
  /\ \A i \in 1 .. 6 : /\ StageOf(i) \in 1 .. 7
                       /\ Stages[StageOf(i)] = Files[i]
                       /\ Files[i] \in ToSet(Files)
                       /\ Files[i] # "shards"
  /\ \A i, j \in 1 .. 6 : Files[i] = Files[j] => i = j
  /\ \A s \in 1 .. 7 : Stages[s] # "shards" => \E i \in 1 .. 6 : s = StageOf(i)
  /\ \A i, j \in 1 .. 6 : i < j => StageOf(i) < StageOf(j)
  /\ DOMAIN Files = 1 .. 6
<1>1. DOMAIN Files = 1 .. 6
  BY DEF Files
<1>2. \A i \in 1 .. 6 : Files[i] \in ToSet(Files)
  BY <1>1 DEF ToSet
<1>3. \A i \in 1 .. 6 : i \in {1, 2, 3, 4, 5, 6}
  OBVIOUS
<1>4. \A s \in 1 .. 7 : s \in {1, 2, 3, 4, 5, 6, 7}
  OBVIOUS
<1>5. \A i \in 1 .. 6 : StageOf(i) \in 1 .. 7 /\ Stages[StageOf(i)] = Files[i]
  BY <1>3 DEF StageOf, Stages, Files
<1>6. \A i \in 1 .. 6 : Files[i] # "shards"
  BY <1>3 DEF Files
<1>7. \A i, j \in 1 .. 6 : Files[i] = Files[j] => i = j
  BY <1>3 DEF Files
<1>8. \A s \in 1 .. 7 : Stages[s] # "shards" => \E i \in 1 .. 6 : s = StageOf(i)
  <2> SUFFICES ASSUME NEW s \in 1 .. 7, Stages[s] # "shards"
               PROVE  \E i \in 1 .. 6 : s = StageOf(i)
    OBVIOUS
  <2>1. s # 4
    BY DEF Stages
  <2>2. s = StageOf(IF s <= 3 THEN s ELSE s - 1)
    BY <2>1 DEF StageOf
  <2> QED BY <2>1, <2>2
<1>9. \A i, j \in 1 .. 6 : i < j => StageOf(i) < StageOf(j)
  BY DEF StageOf
<1> QED BY <1>1, <1>2, <1>5, <1>6, <1>7, <1>8, <1>9

LEMMA OrderInvInit == PrepareInit => OrderInv
<1> SUFFICES ASSUME PrepareInit PROVE OrderInv
  OBVIOUS
<1>1. PrepareTypes
  BY DEF PrepareInit, PrepareTypes
<1>2. Progress
  BY FilesAndStages DEF PrepareInit, Progress
<1>3. WrittenInOrder
  BY FilesAndStages DEF PrepareInit, WrittenInOrder
<1> QED BY <1>1, <1>2, <1>3 DEF OrderInv

\* The step that puts a file in place, whole or torn.
LEMMA PutKeepsOrder ==
  ASSUME OrderInv, NEW i \in 1 .. 6, stage = StageOf(i), NEW w \in BOOLEAN,
         files' = [files EXCEPT ![Files[i]] = [of |-> exports, whole |-> w]],
         exports' = exports
  PROVE  /\ \A j \in 1 .. 6 : files'[Files[j]] = IF j = i THEN [of |-> exports, whole |-> w]
                                                ELSE files[Files[j]]
         /\ files' \in [ToSet(Files) -> [of : Nat, whole : BOOLEAN]]
         /\ WrittenInOrder'
<1>1. files \in [ToSet(Files) -> [of : Nat, whole : BOOLEAN]] /\ exports \in Nat /\ stage \in 0 .. 8
  BY DEF OrderInv, PrepareTypes
<1>2. \A j \in 1 .. 6 : files'[Files[j]] = IF j = i THEN [of |-> exports, whole |-> w]
                                           ELSE files[Files[j]]
  BY <1>1, FilesAndStages
<1>3. files' \in [ToSet(Files) -> [of : Nat, whole : BOOLEAN]]
  BY <1>1
<1>4. \A j \in 1 .. 6 : /\ j < i => files[Files[j]] = [of |-> exports, whole |-> TRUE]
                        /\ j >= i => files[Files[j]].of < exports
  BY <1>1, FilesAndStages DEF OrderInv, Progress, StageOf
<1>5. WrittenInOrder'
  <2> SUFFICES ASSUME NEW j \in 1 .. 6, NEW k \in 1 .. 6, j < k
               PROVE  /\ files'[Files[k]].of <= files'[Files[j]].of
                      /\ ~files'[Files[j]].whole => files'[Files[k]].of < files'[Files[j]].of
    BY FilesAndStages DEF WrittenInOrder
  <2>1. /\ files[Files[k]].of <= files[Files[j]].of
        /\ ~files[Files[j]].whole => files[Files[k]].of < files[Files[j]].of
    BY FilesAndStages DEF OrderInv, WrittenInOrder
  <2>2. /\ files[Files[k]] \in [of : Nat, whole : BOOLEAN]
        /\ files[Files[j]] \in [of : Nat, whole : BOOLEAN]
    BY <1>1, FilesAndStages
  <2>3. CASE j = i
    BY <1>2, <1>4, <2>2, <2>3, <1>1
  <2>4. CASE k = i
    BY <1>2, <1>4, <2>2, <2>4, <1>1
  <2>5. CASE j # i /\ k # i
    BY <1>2, <2>1, <2>5
  <2> QED BY <2>3, <2>4, <2>5
<1> QED BY <1>2, <1>3, <1>5

LEMMA OrderInvStep == OrderInv /\ [PrepareNext]_prepareVars => OrderInv'
<1> SUFFICES ASSUME OrderInv, [PrepareNext]_prepareVars PROVE OrderInv'
  OBVIOUS
<1>0. PrepareTypes /\ Progress /\ WrittenInOrder
  BY DEF OrderInv
<1>1. ASSUME NEW c \in Checkpoints, NEW selection \in Selections,
             NEW materialize \in BOOLEAN, Begin(c, selection, materialize)
      PROVE  OrderInv'
  <2>1. files' = files /\ exports' = exports + 1 /\ stage' = 1 /\ breaks' = breaks
    BY <1>1 DEF Begin
  <2>2. \A i \in 1 .. 6 : files[Files[i]].of \in Nat
    BY <1>0, FilesAndStages DEF PrepareTypes
  <2>3. Progress'
    BY <1>0, <2>1, <2>2, FilesAndStages DEF Progress, PrepareTypes
  <2>4. PrepareTypes'
    BY <1>0, <2>1 DEF PrepareTypes
  <2>5. WrittenInOrder'
    BY <1>0, <2>1 DEF WrittenInOrder
  <2> QED BY <2>3, <2>4, <2>5 DEF OrderInv
<1>2. ASSUME NEW c \in Checkpoints, Refuse(c) PROVE OrderInv'
  <2>1. files' = files /\ exports' = exports + 1 /\ stage' = 0 /\ breaks' = breaks
    BY <1>2 DEF Refuse
  <2>2. \A i \in 1 .. 6 : files[Files[i]].of \in Nat
    BY <1>0, FilesAndStages DEF PrepareTypes
  <2> QED
    BY <1>0, <2>1, <2>2 DEF OrderInv, PrepareTypes, Progress, WrittenInOrder
<1>3. CASE Write
  <2>1. /\ stage \in 1 .. 7 /\ Stages[stage] # "shards"
        /\ stage' = stage + 1 /\ exports' = exports /\ breaks' = breaks
        /\ files' = [files EXCEPT ![Stages[stage]] = [of |-> exports, whole |-> TRUE]]
    BY <1>3 DEF Write
  <2>2. PICK i \in 1 .. 6 : stage = StageOf(i)
    BY <2>1, FilesAndStages
  <2>3. files' = [files EXCEPT ![Files[i]] = [of |-> exports, whole |-> TRUE]]
    BY <2>1, <2>2, FilesAndStages
  <2>4. /\ \A j \in 1 .. 6 : files'[Files[j]] = IF j = i THEN [of |-> exports, whole |-> TRUE]
                                               ELSE files[Files[j]]
        /\ files' \in [ToSet(Files) -> [of : Nat, whole : BOOLEAN]]
        /\ WrittenInOrder'
    BY <2>1, <2>2, <2>3, PutKeepsOrder
  <2>5. PrepareTypes'
    BY <1>0, <2>1, <2>4 DEF PrepareTypes
  <2>6. \A j \in 1 .. 6 : StageOf(j) < stage + 1 <=> j <= i
    BY <2>2 DEF StageOf
  <2>7. Progress'
    BY <1>0, <2>1, <2>2, <2>4, <2>6, FilesAndStages DEF Progress, StageOf, PrepareTypes
  <2> QED BY <2>4, <2>5, <2>7 DEF OrderInv
<1>4. CASE Copy \/ CopyDone
  <2>1. CASE Copy
    BY <1>0, <2>1 DEF Copy, OrderInv, PrepareTypes, Progress, WrittenInOrder
  <2>2. CASE CopyDone
    <3>1. /\ stage = 4 /\ stage' = 5
          /\ files' = files /\ exports' = exports /\ breaks' = breaks
      BY <2>2, FilesAndStages DEF CopyDone, Copying, Stages
    <3>2. \A i \in 1 .. 6 : StageOf(i) < 5 <=> StageOf(i) < 4
      BY DEF StageOf
    <3> QED
      BY <1>0, <3>1, <3>2 DEF OrderInv, PrepareTypes, Progress, WrittenInOrder
  <2> QED BY <1>4, <2>1, <2>2
<1>5. CASE ShardMissing \/ Serve
  <2>1. files' = files /\ exports' = exports /\ stage' = 0 /\ breaks' = breaks
    BY <1>5 DEF ShardMissing, Serve, Stop
  <2> QED
    BY <1>0, <2>1 DEF OrderInv, PrepareTypes, Progress, WrittenInOrder
<1>6. CASE Break
  <2>1. stage' = 0 /\ exports' = exports /\ breaks' = breaks + 1 /\ stage \in 1 .. 7
    BY <1>6 DEF Break, Stop
  <2>2. CASE files' = files
    BY <1>0, <2>1, <2>2 DEF OrderInv, PrepareTypes, Progress, WrittenInOrder
  <2>3. CASE /\ Stages[stage] # "shards"
             /\ files' = [files EXCEPT ![Stages[stage]] = [of |-> exports, whole |-> FALSE]]
    <3>1. PICK i \in 1 .. 6 : stage = StageOf(i)
      BY <2>1, <2>3, FilesAndStages
    <3>2. files' = [files EXCEPT ![Files[i]] = [of |-> exports, whole |-> FALSE]]
      BY <2>3, <3>1, FilesAndStages
    <3>3. /\ \A j \in 1 .. 6 : files'[Files[j]] = IF j = i THEN [of |-> exports, whole |-> FALSE]
                                                 ELSE files[Files[j]]
          /\ files' \in [ToSet(Files) -> [of : Nat, whole : BOOLEAN]]
          /\ WrittenInOrder'
      BY <2>1, <3>1, <3>2, PutKeepsOrder
    <3>4. PrepareTypes'
      BY <1>0, <2>1, <3>3 DEF PrepareTypes
    <3>5. Progress'
      BY <1>0, <2>1, <3>3 DEF Progress, PrepareTypes
    <3> QED BY <3>3, <3>4, <3>5 DEF OrderInv
  <2> QED BY <1>6, <2>2, <2>3 DEF Break
<1>7. CASE UNCHANGED prepareVars
  BY <1>0, <1>7 DEF prepareVars, OrderInv, PrepareTypes, Progress, WrittenInOrder
<1> QED
  BY <1>1, <1>2, <1>3, <1>4, <1>5, <1>6, <1>7 DEF PrepareNext

\* However many exports into one directory are killed, fail or miss a shard, no
\* file of the artifact is newer than one written before it, and one that is
\* not whole is newer than all that come after it.
THEOREM FilesAreInOrder == PrepareSpec => []WrittenInOrder
<1>1. OrderInv => WrittenInOrder
  BY DEF OrderInv
<1> QED BY OrderInvInit, OrderInvStep, <1>1, PTL DEF PrepareSpec

-----------------------------------------------------------------------------
(* What a prepared directory holds *)

Shards == Range(request.map)

OneOfEachName == \A s, t \in Shards : s[2] = t[2] => s = t

\* The copy of a shard is the shard.
Whole(s) ==
  /\ Target(s) \in DOMAIN blobs /\ Source(request, s) \in DOMAIN blobs
  /\ blobs[Target(s)] = blobs[Source(request, s)]

\* While an export with copies runs, each of its shards has been copied or is
\* to be, and those copied so far are whole.
CopyInv ==
  /\ IsFiniteSet(DOMAIN blobs) /\ todo \in Seq(ToSet(todo))
  /\ exit # None => stage = 0
  /\ stage > 0 /\ request.materialize =>
       /\ copied \union ToSet(todo) = Shards
       /\ stage > 4 => todo = <<>>
       /\ OneOfEachName => \A s \in copied : Whole(s)

\* What is said of an export that ended well.
EndInv ==
  exit \in {0, 124} =>
    /\ \A i \in 1 .. 6 : files[Files[i]] = [of |-> exports, whole |-> TRUE]
    /\ request.materialize =>
         copied = Shards /\ (OneOfEachName => \A s \in copied : Whole(s))

\* An injection into a finite set, and an image of one.
LEMMA ShardsAreFinite ==
  ASSUME CopyInv, NEW c \in Checkpoints
  PROVE  IsFiniteSet(Range(WeightMap(c)))
<1>1. CASE c.safetensors # None
  BY <1>1, CheckpointAssumption DEF WeightMap
<1>2. CASE c.safetensors = None /\ c.bin # None
  BY <1>2, CheckpointAssumption DEF WeightMap
<1>3. CASE c.safetensors = None /\ c.bin = None
  <2> DEFINE place == [s \in TopLevel(c) |-> <<c.dir, s[1], s[2]>>]
  <2>1. \A s \in TopLevel(c) : s = <<s[1], s[2]>> /\ <<c.dir, s[1], s[2]>> \in DOMAIN blobs
    BY DEF TopLevel
  <2>2. place \in Injection(TopLevel(c), DOMAIN blobs)
    BY <2>1 DEF Injection, IsInjective
  <2>3. IsFiniteSet(TopLevel(c))
    BY <2>2, FS_Injection DEF CopyInv
  <2>4. WeightMap(c) = [n \in {FileName(s) : s \in TopLevel(c)} |->
                          CHOOSE s \in TopLevel(c) : FileName(s) = n]
    BY <1>3 DEF WeightMap
  <2>5. Range(WeightMap(c)) \in SUBSET TopLevel(c)
    <3> HIDE DEF place
    <3>1. QED
      BY <2>4 DEF Range
  <2>6. QED
    BY <2>3, <2>5, FS_Subset
<1>4. QED
  BY <1>1, <1>2, <1>3

LEMMA SortedIs ==
  ASSUME NEW S, IsFiniteSet(S), NEW list \in Sorted(S)
  PROVE  list \in Seq(ToSet(list)) /\ ToSet(list) = S
<1>1. Cardinality(S) \in Nat
  BY FS_CardinalityType
<1>2. list \in [1 .. Cardinality(S) -> S] /\ ToSet(list) = S
  BY DEF Sorted
<1>3. QED
  BY <1>1, <1>2

LEMMA OwnElements ==
  ASSUME NEW S, NEW q \in Seq(S)
  PROVE  q \in Seq(ToSet(q))
<1>1. Len(q) \in Nat /\ DOMAIN q = 1 .. Len(q) /\ q = [k \in 1 .. Len(q) |-> q[k]]
  OBVIOUS
<1>2. q \in [1 .. Len(q) -> ToSet(q)]
  BY <1>1 DEF ToSet
<1>3. QED
  BY <1>1, <1>2

LEMMA TailIs ==
  ASSUME NEW S, NEW q \in Seq(S), q # <<>>
  PROVE  Tail(q) \in Seq(S) /\ ToSet(q) = {Head(q)} \union ToSet(Tail(q))
<1>1. /\ Len(q) \in Nat \ {0} /\ DOMAIN q = 1 .. Len(q) /\ Head(q) = q[1]
      /\ Tail(q) \in Seq(S) /\ DOMAIN Tail(q) = 1 .. Len(q) - 1
      /\ \A k \in 1 .. Len(q) - 1 : Tail(q)[k] = q[k + 1]
  OBVIOUS
<1>2. ASSUME NEW k \in DOMAIN q
      PROVE  q[k] = Head(q) \/ q[k] \in ToSet(Tail(q))
  <2>1. CASE k = 1
    BY <1>1, <2>1
  <2>2. CASE k # 1
    <3>1. k - 1 \in DOMAIN Tail(q) /\ Tail(q)[k - 1] = q[k]
      BY <1>1, <2>2
    <3>2. QED
      BY <3>1 DEF ToSet
  <2>3. QED
    BY <2>1, <2>2
<1>3. ASSUME NEW k \in DOMAIN Tail(q)
      PROVE  Tail(q)[k] \in ToSet(q)
  <2>1. k + 1 \in DOMAIN q /\ q[k + 1] = Tail(q)[k]
    BY <1>1
  <2>2. QED
    BY <2>1 DEF ToSet
<1>4. Head(q) \in ToSet(q)
  BY <1>1 DEF ToSet
<1>5. QED
  BY <1>1, <1>2, <1>3, <1>4 DEF ToSet

LEMMA TailOf ==
  ASSUME NEW q, q \in Seq(ToSet(q)), q # <<>>
  PROVE  /\ Tail(q) \in Seq(ToSet(Tail(q)))
         /\ ToSet(q) = {Head(q)} \union ToSet(Tail(q))
<1> DEFINE S == ToSet(q)
<1>1. q \in Seq(S)
  OBVIOUS
<1> HIDE DEF S
<1>2. Tail(q) \in Seq(S) /\ ToSet(q) = {Head(q)} \union ToSet(Tail(q))
  BY <1>1, TailIs
<1>3. Tail(q) \in Seq(ToSet(Tail(q)))
  BY <1>2, OwnElements
<1>4. QED
  BY <1>2, <1>3

LEMMA NothingTodo == ToSet(<<>>) = {}
BY DEF ToSet

\* What CopyInv and EndInv depend on.
LEMMA SameCopies ==
  ASSUME UNCHANGED <<request, todo, blobs>>
  PROVE  /\ Shards' = Shards /\ ToSet(todo)' = ToSet(todo)
         /\ OneOfEachName' <=> OneOfEachName
         /\ \A s : Whole(s)' <=> Whole(s)
BY DEF Shards, Range, ToSet, OneOfEachName, Whole, Source, Target

LEMMA StoredIs ==
  ASSUME NEW path, NEW content, blobs' = Stored(path, content), IsFiniteSet(DOMAIN blobs)
  PROVE  /\ DOMAIN blobs' = DOMAIN blobs \union {path} /\ IsFiniteSet(DOMAIN blobs')
         /\ blobs'[path] = content
         /\ \A p \in DOMAIN blobs : p # path => blobs'[p] = blobs[p]
<1>1. /\ DOMAIN blobs' = DOMAIN blobs \union {path}
      /\ \A p \in DOMAIN blobs' : blobs'[p] = IF p = path THEN content ELSE blobs[p]
  BY DEF Stored
<1>2. IsFiniteSet(DOMAIN blobs \union {path})
  BY FS_AddElement
<1>3. QED
  BY <1>1, <1>2

\* The copying of a shard makes it whole and leaves the others so.
LEMMA CopyKeepsWhole ==
  ASSUME CopyInv, Copy, request.materialize, OneOfEachName, \A s \in copied : Whole(s),
         copied \union ToSet(todo) = Shards, NEW s \in copied \union {Head(todo)}
  PROVE  Whole(s)'
<1> DEFINE t == Head(todo)
<1>1. /\ todo # <<>> /\ Source(request, t) \in DOMAIN blobs
      /\ blobs' = Stored(Target(t), blobs[Source(request, t)])
      /\ request' = request
  BY DEF Copy
<1>2. t \in Shards /\ s \in Shards
  BY <1>1, TailOf DEF CopyInv
<1>3. /\ DOMAIN blobs' = DOMAIN blobs \union {Target(t)}
      /\ blobs'[Target(t)] = blobs[Source(request, t)]
      /\ \A p \in DOMAIN blobs : p # Target(t) => blobs'[p] = blobs[p]
  BY <1>1, StoredIs DEF CopyInv
<1> HIDE DEF t
<1>4. CASE s = t
  BY <1>1, <1>3, <1>4 DEF Whole, Source, Target
<1>5. CASE s # t
  <2>1. Whole(s)
    BY <1>5 DEF t
  <2>2. s[2] # t[2]
    BY <1>2, <1>5 DEF OneOfEachName
  <2>3. Target(s) # Target(t) /\ Source(request, s) # Target(t)
    BY <2>2 DEF Source, Target
  <2>4. QED
    BY <1>1, <1>3, <2>1, <2>3 DEF Whole, Source, Target
<1>6. QED
  BY <1>4, <1>5

LEMMA CopyInvStep ==
  ASSUME PrepareTypes, CopyInv, [PrepareNext]_prepareVars
  PROVE  CopyInv'
<1>1. ASSUME NEW c \in Checkpoints, NEW selection \in Selections,
             NEW materialize \in BOOLEAN, Begin(c, selection, materialize)
      PROVE  CopyInv'
  <2>1. /\ blobs' = blobs /\ exit' = None /\ stage' = 1 /\ copied' = {}
        /\ request'.map = WeightMap(c) /\ request'.materialize = materialize
        /\ todo' \in IF materialize THEN Sorted(Range(WeightMap(c))) ELSE {<<>>}
    BY <1>1 DEF Begin
  <2>2. todo' \in Seq(ToSet(todo')) /\ (materialize => ToSet(todo') = Range(WeightMap(c)))
    <3>1. CASE materialize
      BY <2>1, <3>1, ShardsAreFinite, SortedIs
    <3>2. CASE ~materialize
      BY <2>1, <3>2
    <3>3. QED
      BY <3>1, <3>2
  <2>3. Shards' = Range(WeightMap(c)) /\ ToSet(todo)' = ToSet(todo')
    BY <2>1 DEF Shards, Range, ToSet
  <2>4. QED
    BY <2>1, <2>2, <2>3 DEF CopyInv
<1>2. ASSUME NEW c \in Checkpoints, Refuse(c) PROVE CopyInv'
  BY <1>2 DEF Refuse, CopyInv, ToSet
<1>3. CASE Write
  <2>1. /\ stage \in 1 .. 7 /\ Stages[stage] # "shards" /\ stage' = stage + 1
        /\ UNCHANGED <<request, todo, copied, blobs, exit>>
    BY <1>3 DEF Write
  <2>2. stage # 4
    BY <2>1 DEF Stages
  <2>3. stage' > 4 => stage > 4
    BY <2>1, <2>2
  <2>4. QED
    BY <2>1, <2>3, SameCopies DEF CopyInv
<1>4. CASE Copy
  <2>1. /\ todo # <<>> /\ stage \in 1 .. 7
        /\ blobs' = Stored(Target(Head(todo)), blobs[Source(request, Head(todo))])
        /\ copied' = copied \union {Head(todo)} /\ todo' = Tail(todo)
        /\ UNCHANGED <<stage, request, exit>>
    BY <1>4 DEF Copy, Copying
  <2>2. /\ Tail(todo) \in Seq(ToSet(Tail(todo)))
        /\ ToSet(todo) = {Head(todo)} \union ToSet(Tail(todo))
    BY <2>1, TailOf DEF CopyInv
  <2>3. IsFiniteSet(DOMAIN blobs')
    BY <2>1, StoredIs DEF CopyInv
  <2>4. Shards' = Shards /\ ToSet(todo)' = ToSet(Tail(todo)) /\ (OneOfEachName' => OneOfEachName)
    BY <2>1 DEF Shards, Range, ToSet, OneOfEachName
  <2>5. request.materialize /\ OneOfEachName => \A s \in copied' : Whole(s)'
    <3>1. SUFFICES ASSUME request.materialize, OneOfEachName, NEW s \in copied'
                   PROVE  Whole(s)'
      OBVIOUS
    <3>2. copied \union ToSet(todo) = Shards /\ \A u \in copied : Whole(u)
      BY <2>1, <3>1 DEF CopyInv
    <3>3. QED
      BY <1>4, <2>1, <3>1, <3>2, CopyKeepsWhole
  <2>6. QED
    BY <2>1, <2>2, <2>3, <2>4, <2>5 DEF CopyInv
<1>5. CASE CopyDone
  <2>1. /\ stage \in 1 .. 7 /\ stage' = stage + 1 /\ todo = <<>>
        /\ UNCHANGED <<request, todo, copied, blobs, exit>>
    BY <1>5 DEF CopyDone, Copying
  <2>2. QED
    BY <2>1, SameCopies DEF CopyInv
<1>6. CASE ShardMissing \/ Serve
  BY <1>6 DEF ShardMissing, Serve, Stop, CopyInv, ToSet
<1>7. CASE Break
  <2>1. stage' = 0 /\ UNCHANGED <<request, todo, copied>>
    BY <1>7 DEF Break, Stop
  <2>2. IsFiniteSet(DOMAIN blobs')
    <3>1. CASE blobs' = blobs
      BY <3>1 DEF CopyInv
    <3>2. CASE blobs' = Stored(Target(Head(todo)), "torn")
      BY <3>2, StoredIs DEF CopyInv
    <3>3. QED
      BY <1>7, <3>1, <3>2 DEF Break
  <2>3. QED
    BY <2>1, <2>2 DEF CopyInv, ToSet
<1>8. CASE UNCHANGED prepareVars
  <2>1. UNCHANGED <<stage, request, todo, copied, blobs, exit>>
    BY <1>8 DEF prepareVars
  <2>2. QED
    BY <2>1, SameCopies DEF CopyInv
<1>9. QED
  BY <1>1, <1>2, <1>3, <1>4, <1>5, <1>6, <1>7, <1>8 DEF PrepareNext

LEMMA EndInvStep ==
  ASSUME OrderInv, CopyInv, EndInv, [PrepareNext]_prepareVars
  PROVE  EndInv'
<1>1. CASE Serve
  <2>1. stage = 8 /\ UNCHANGED <<exports, request, todo, copied, files, blobs>>
    BY <1>1 DEF Serve
  <2>2. \A i \in 1 .. 6 : files[Files[i]] = [of |-> exports, whole |-> TRUE]
    BY <2>1, FilesAndStages DEF OrderInv, Progress
  <2>3. request.materialize =>
          copied = Shards /\ (OneOfEachName => \A s \in copied : Whole(s))
    <3>1. SUFFICES ASSUME request.materialize
                   PROVE  copied = Shards /\ (OneOfEachName => \A s \in copied : Whole(s))
      OBVIOUS
    <3>2. /\ copied \union ToSet(todo) = Shards /\ todo = <<>>
          /\ OneOfEachName => \A s \in copied : Whole(s)
      BY <2>1, <3>1 DEF CopyInv
    <3>3. ToSet(todo) = {}
      BY <3>2, NothingTodo
    <3>4. QED
      BY <3>2, <3>3
  <2>4. QED
    BY <2>1, <2>2, <2>3, SameCopies DEF EndInv
<1>2. CASE UNCHANGED prepareVars
  <2>1. UNCHANGED <<exports, request, todo, copied, files, blobs, exit>>
    BY <1>2 DEF prepareVars
  <2>2. QED
    BY <2>1, SameCopies DEF EndInv
<1>3. CASE exit' \notin {0, 124}
  BY <1>3 DEF EndInv
<1>4. ASSUME exit' \in {0, 124}, ~UNCHANGED prepareVars, ~Serve
      PROVE  FALSE
  <2>1. stage = 0
    BY <1>4, NoneAssumption
    DEF PrepareNext, Begin, Refuse, Write, Copy, CopyDone, Copying, ShardMissing, Break, Stop,
        CopyInv
  <2>2. QED
    BY <1>4, <2>1, NoneAssumption
    DEF PrepareNext, Begin, Refuse, Write, Copy, CopyDone, Copying, ShardMissing, Break
<1>5. QED
  BY <1>1, <1>2, <1>3, <1>4

LEMMA CopyInvInit == PrepareInit => CopyInv /\ EndInv
<1> SUFFICES ASSUME PrepareInit PROVE CopyInv /\ EndInv
  OBVIOUS
<1> DEFINE paths(c) == {<<c.dir, s[1], s[2]>> : s \in c.shards}
           all == {paths(c) : c \in Checkpoints}
<1>1. ASSUME NEW c \in Checkpoints PROVE IsFiniteSet(paths(c))
  <2> DEFINE f == [s \in c.shards |-> <<c.dir, s[1], s[2]>>]
  <2>1. f \in Surjection(c.shards, paths(c))
    BY DEF Surjection
  <2>2. IsFiniteSet(c.shards)
    BY CheckpointAssumption
  <2> HIDE DEF f
  <2>3. QED
    BY <2>1, <2>2, FS_Surjection
<1>2. IsFiniteSet(all)
  <2> HIDE DEF paths
  <2> DEFINE f == [c \in Checkpoints |-> paths(c)]
  <2>1. f \in Surjection(Checkpoints, all)
    BY DEF Surjection
  <2>2. IsFiniteSet(Checkpoints)
    BY CheckpointAssumption
  <2> HIDE DEF f, all
  <2>3. QED
    BY <2>1, <2>2, FS_Surjection
<1>3. \A T \in all : IsFiniteSet(T)
  <2> HIDE DEF paths
  <2>1. QED
    BY <1>1
<1>4. DOMAIN blobs = UNION all
  BY DEF PrepareInit
<1> HIDE DEF all
<1>5. IsFiniteSet(DOMAIN blobs)
  BY <1>2, <1>3, <1>4, FS_UNION
<1>6. todo = <<>> /\ exit = None /\ stage = 0
  BY DEF PrepareInit
<1>7. CopyInv
  BY <1>5, <1>6 DEF CopyInv
<1>8. QED
  BY <1>6, <1>7, NoneAssumption DEF EndInv

\* The shards a tile is mapped to are shards of the map, and those copied are
\* mapped to their copies.
LEMMA TileMapIs ==
  ASSUME NEW r, NEW entry \in Range(TileMap(r)), NEW s \in entry.shards
  PROVE  s \in Range(r.map) /\ (s \in copied => Target(s) \in entry.materialized)
<1>1. PICK id \in DOMAIN TileMap(r) : entry = TileMap(r)[id]
  BY DEF Range
<1> DEFINE owner == <<id[1], id[2], id[3]>>
           tensors == IF owner \in DOMAIN Resolved(r) THEN Resolved(r)[owner] ELSE {}
           shards == {r.map[n] : n \in tensors}
<1>2. entry = [tensors |-> tensors, shards |-> shards,
               materialized |-> {Target(u) : u \in shards \intersect copied}]
  BY <1>1 DEF TileMap
<1>3. tensors \subseteq DOMAIN r.map
  BY DEF Resolved
<1> HIDE DEF tensors
<1>4. QED
  BY <1>2, <1>3 DEF Range

\* An artifact whose export ended well is whole and of one checkpoint, whatever
\* earlier exports have left in the directory.
THEOREM PreparedArtifactsAreFaithful == PrepareSpec => []PreparedArtifactIsFaithful
<1>1. OrderInv /\ EndInv => PreparedArtifactIsFaithful
  <2>1. SUFFICES ASSUME OrderInv, EndInv, exit \in {0, 124}
        PROVE  /\ \A f \in DOMAIN files : files[f] = [of |-> exports, whole |-> TRUE]
               /\ request.materialize
                    /\ (\A s, t \in Range(request.map) : s[2] = t[2] => s = t)
                  => \A entry \in Range(TileMap(request)) : \A s \in entry.shards :
                       /\ Target(s) \in entry.materialized
                       /\ blobs[Target(s)] = blobs[Source(request, s)]
    BY DEF PreparedArtifactIsFaithful
  <2>2. ASSUME NEW f \in DOMAIN files
        PROVE  files[f] = [of |-> exports, whole |-> TRUE]
    <3>1. f \in ToSet(Files)
      BY <2>1 DEF OrderInv, PrepareTypes
    <3>2. PICK i \in 1 .. 6 : f = Files[i]
      BY <3>1, FilesAndStages DEF ToSet
    <3>3. QED
      BY <2>1, <3>2 DEF EndInv
  <2>3. ASSUME request.materialize, OneOfEachName,
               NEW entry \in Range(TileMap(request)), NEW s \in entry.shards
        PROVE  /\ Target(s) \in entry.materialized
               /\ blobs[Target(s)] = blobs[Source(request, s)]
    <3>1. copied = Shards /\ \A u \in copied : Whole(u)
      BY <2>1, <2>3 DEF EndInv
    <3>2. s \in Shards /\ (s \in copied => Target(s) \in entry.materialized)
      BY TileMapIs DEF Shards
    <3>3. QED
      BY <3>1, <3>2 DEF Whole
  <2>4. QED
    BY <2>2, <2>3 DEF OneOfEachName, Shards
<1>2. CopyInv /\ EndInv /\ OrderInv /\ [PrepareNext]_prepareVars => CopyInv' /\ EndInv'
  BY CopyInvStep, EndInvStep DEF OrderInv
<1>3. QED
  BY <1>1, <1>2, OrderInvInit, OrderInvStep, CopyInvInit, PTL DEF PrepareSpec

-----------------------------------------------------------------------------
\* Deployment plans

Ranks == 0 .. Experts - 1

LEMMA HitsType ==
  ASSUME NEW p \in Profiles, NEW rows, rows = p.rows
  PROVE  /\ Hits(rows) \in [DOMAIN Hits(rows) -> Nat]
         /\ DOMAIN Hits(rows) \subseteq Keys /\ IsFiniteSet(DOMAIN Hits(rows))
<1> DEFINE routes == Routes(rows)
           of(key) == {q \in routes : RouteAt(rows, q).key = key}
           count(key) == [r \in of(key) |-> RouteAt(rows, r).count]
<1>1. /\ rows \in Seq(ToSet(rows))
      /\ \A i \in DOMAIN rows :
           /\ rows[i].routes \in Seq(ToSet(rows[i].routes))
           /\ \A j \in DOMAIN rows[i].routes :
                rows[i].routes[j].key \in Keys /\ rows[i].routes[j].count \in Nat
  BY ProfileAssumption
<1>2. \A r \in routes : RouteAt(rows, r).key \in Keys /\ RouteAt(rows, r).count \in Nat
  BY <1>1 DEF Routes, RouteAt, RowsOf
<1>3. IsFiniteSet(routes)
  <2> DEFINE R == RowsOf(rows)
             at(i) == {i} \X DOMAIN rows[i].routes
             SS == {at(i) : i \in R}
  <2>1. R \in SUBSET (1 .. Len(rows)) /\ Len(rows) \in Nat
    BY <1>1 DEF RowsOf
  <2>2. IsFiniteSet(R)
    <3>1. IsFiniteSet(1 .. Len(rows))
      BY ONLY <2>1, FS_Interval
    <3> HIDE DEF R
    <3> QED BY ONLY <2>1, <3>1, FS_Subset
  <2>3. ASSUME NEW i \in R PROVE IsFiniteSet(at(i))
    <3> DEFINE n == Len(rows[i].routes)
    <3>1. n \in Nat /\ DOMAIN rows[i].routes = 1 .. n
      BY <1>1, <2>1
    <3> HIDE DEF n
    <3>2. IsFiniteSet({i})
      BY FS_Singleton
    <3>3. IsFiniteSet(1 .. n)
      BY ONLY <3>1, FS_Interval
    <3>4. IsFiniteSet({i} \X (1 .. n))
      BY ONLY <3>2, <3>3, FS_Product
    <3> QED BY ONLY <3>1, <3>4
  <2>4. IsFiniteSet(SS)
    <3> DEFINE f == [i \in R |-> at(i)]
    <3>1. f \in Surjection(R, SS)
      BY DEF Surjection
    <3> HIDE DEF f, SS, R
    <3> QED BY ONLY <2>2, <3>1, FS_Surjection
  <2>5. \A s \in SS : IsFiniteSet(s)
    BY <2>3
  <2> HIDE DEF SS
  <2>6. IsFiniteSet(UNION SS)
    BY ONLY <2>4, <2>5, FS_UNION
  <2> QED BY ONLY <2>6 DEF SS, Routes
<1>4. DOMAIN Hits(rows) = {RouteAt(rows, r).key : r \in routes}
  BY DEF Hits
<1>5. DOMAIN Hits(rows) \subseteq Keys
  BY <1>2, <1>4
<1>6. IsFiniteSet(DOMAIN Hits(rows))
  <2> DEFINE f == [r \in routes |-> RouteAt(rows, r).key]
  <2>1. f \in Surjection(routes, DOMAIN Hits(rows))
    BY <1>4 DEF Surjection
  <2> HIDE DEF f, routes
  <2> QED BY ONLY <1>3, <2>1, FS_Surjection
<1>7. ASSUME NEW key \in DOMAIN Hits(rows) PROVE Hits(rows)[key] \in Nat
  <2>1. Hits(rows)[key] = SumFunction(count(key))
    BY DEF Hits
  <2>2. count(key) \in [of(key) -> Nat] /\ of(key) \in SUBSET routes
    BY <1>2
  <2>3. IsFiniteSet(of(key))
    BY ONLY <1>3, <2>2, FS_Subset
  <2> DEFINE s == of(key)
             f == count(key)
  <2>4. IsFiniteSet(s) /\ f \in [s -> Nat] /\ DOMAIN f = s
    BY <2>2, <2>3
  <2> HIDE DEF s, f
  <2>5. SumFunction(f) = Totals(f, s)[s]
    BY ONLY <2>4, SumDef
  <2>6. Totals(f, s)[s] \in Nat
    BY ONLY <2>4, TotalType
  <2> QED BY <2>1, <2>5, <2>6 DEF f
<1> QED BY <1>4, <1>5, <1>6, <1>7 DEF Hits

\* More hits, or as many at an earlier place.
LEMMA HotterIsAnOrder ==
  ASSUME NEW D \in SUBSET Keys, NEW counts \in [D -> Nat]
  PROVE  /\ \A a, b \in D : a # b => Hotter(counts, a, b) \/ Hotter(counts, b, a)
         /\ \A a \in D : ~Hotter(counts, a, a)
         /\ \A a, b, c \in D :
              Hotter(counts, a, b) /\ Hotter(counts, b, c) => Hotter(counts, a, c)
<1>1. \A a \in D : counts[a] \in Nat
  OBVIOUS
<1>2. \A a, b \in Keys :
        /\ a # b => Earlier(a, b) \/ Earlier(b, a)
        /\ ~Earlier(a, a)
        /\ \A c \in Keys : Earlier(a, b) /\ Earlier(b, c) => Earlier(a, c)
  <2>1. Layers \in Nat /\ Experts \in Nat
    BY ShapeAssumption
  <2>2. \A a \in Keys : a[1] \in Int /\ a[2] \in Int /\ a = <<a[1], a[2]>>
    BY <2>1 DEF Keys
  <2> QED BY ONLY <2>2 DEF Earlier
<1> QED BY ONLY <1>1, <1>2, D \in SUBSET Keys DEF Hotter

LEMMA HotterIsStrict ==
  ASSUME NEW counts, counts \in [Keys -> Nat], NEW l \in 0 .. Layers - 1
  PROVE  /\ \A e, f \in Ranks : e # f =>
              Hotter(counts, <<l, e>>, <<l, f>>) \/ Hotter(counts, <<l, f>>, <<l, e>>)
         /\ \A e \in Ranks : ~Hotter(counts, <<l, e>>, <<l, e>>)
         /\ \A e, f, g \in Ranks :
              Hotter(counts, <<l, e>>, <<l, f>>) /\ Hotter(counts, <<l, f>>, <<l, g>>)
                => Hotter(counts, <<l, e>>, <<l, g>>)
<1>1. \A e \in Ranks : <<l, e>> \in Keys
  BY DEF Keys, Ranks
<1>2. \A e, f \in Ranks : e # f => <<l, e>> # <<l, f>>
  OBVIOUS
<1>3. Keys \in SUBSET Keys
  OBVIOUS
<1> QED BY ONLY <1>1, <1>2, <1>3, counts \in [Keys -> Nat], HotterIsAnOrder

LEMMA RanksAreOrdered ==
  ASSUME NEW counts, counts \in [Keys -> Nat], NEW l \in 0 .. Layers - 1,
         NEW e \in Ranks
  PROVE  /\ Rank(counts, l, e) \in Ranks
         /\ \A f \in Ranks :
              Hotter(counts, <<l, e>>, <<l, f>>) => Rank(counts, l, e) < Rank(counts, l, f)
<1> DEFINE H(f) == {g \in Ranks : Hotter(counts, <<l, g>>, <<l, f>>)}
<1>1. Experts \in Nat /\ Experts > 0
  BY ShapeAssumption
<1>2. IsFiniteSet(Ranks) /\ Cardinality(Ranks) = Experts
  BY ONLY <1>1, FS_Interval DEF Ranks
<1>3. \A f \in Ranks : Rank(counts, l, f) = Cardinality(H(f))
  BY DEF Rank, Ranks
<1>4. ASSUME NEW f \in Ranks, NEW s, s \subseteq H(f), NEW x \in H(f), x \notin s
      PROVE  Cardinality(s) < Cardinality(H(f)) /\ Cardinality(s) \in Nat
             /\ Cardinality(H(f)) \in Nat
  <2>1. H(f) \in SUBSET Ranks
    OBVIOUS
  <2> HIDE DEF H
  <2>2. IsFiniteSet(H(f))
    BY ONLY <1>2, <2>1, FS_Subset
  <2>3. /\ IsFiniteSet(s) /\ Cardinality(s) <= Cardinality(H(f))
        /\ (Cardinality(H(f)) = Cardinality(s) => H(f) = s)
    BY ONLY <1>4, <2>2, FS_Subset
  <2>4. Cardinality(s) \in Nat /\ Cardinality(H(f)) \in Nat
    BY ONLY <2>2, <2>3, FS_CardinalityType
  <2> QED BY ONLY <1>4, <2>3, <2>4
<1>5. ASSUME NEW f \in Ranks, Hotter(counts, <<l, e>>, <<l, f>>)
      PROVE  Rank(counts, l, e) < Rank(counts, l, f)
  <2>1. H(e) \subseteq H(f) /\ e \in H(f) /\ e \notin H(e)
    BY <1>5, HotterIsStrict
  <2> HIDE DEF H
  <2> QED BY ONLY <1>3, <1>4, <2>1
<1>6. Rank(counts, l, e) \in Ranks
  <2>1. H(e) \in SUBSET Ranks /\ e \notin H(e)
    BY HotterIsStrict
  <2> HIDE DEF H
  <2>2. /\ IsFiniteSet(H(e)) /\ Cardinality(H(e)) <= Cardinality(Ranks)
        /\ (Cardinality(Ranks) = Cardinality(H(e)) => Ranks = H(e))
    BY ONLY <1>2, <2>1, FS_Subset
  <2>3. Cardinality(H(e)) \in Nat
    BY ONLY <2>2, FS_CardinalityType
  <2>4. Cardinality(H(e)) < Experts
    BY ONLY <1>1, <1>2, <2>1, <2>2, <2>3
  <2> QED BY ONLY <1>1, <1>3, <2>3, <2>4 DEF Ranks
<1> QED BY ONLY <1>5, <1>6

\* Rounding keeps bonuses apart that differ by a rank.
LEMMA RoundingKeepsRanks ==
  ASSUME NEW x \in Nat, NEW y \in Nat, x >= y + 238, NEW u \in {238, 119, 1}
  PROVE  ((x + u \div 2) \div u) * u > ((y + u \div 2) \div u) * u
<1>1. CASE u = 238
  BY <1>1
<1>2. CASE u = 119
  BY <1>2
<1>3. CASE u = 1
  BY <1>3
<1> QED BY <1>1, <1>2, <1>3

LEMMA LowerRanksScoreHigher ==
  ASSUME NEW counts, counts \in [Keys -> Nat], NEW l \in 0 .. Layers - 1,
         NEW e \in Ranks, NEW f \in Ranks, Hotter(counts, <<l, e>>, <<l, f>>)
  PROVE  HigherScore(ExportedScores(counts, l)[e], ExportedScores(counts, l)[f])
<1> DEFINE r == Rank(counts, l, e)
           q == Rank(counts, l, f)
           x == Bonus(r, l, e)
           y == Bonus(q, l, f)
<1>1. r \in Ranks /\ q \in Ranks /\ r < q
  BY ONLY counts \in [Keys -> Nat], l \in 0 .. Layers - 1, e \in Ranks, f \in Ranks,
          Hotter(counts, <<l, e>>, <<l, f>>), RanksAreOrdered
<1>2. /\ ExportedScores(counts, l)[e] =
           [band |-> Band(r),
            bonus |-> ((x + Ulp(Band(r)) \div 2) \div Ulp(Band(r))) * Ulp(Band(r))]
      /\ ExportedScores(counts, l)[f] =
           [band |-> Band(q),
            bonus |-> ((y + Ulp(Band(q)) \div 2) \div Ulp(Band(q))) * Ulp(Band(q))]
  BY DEF ExportedScores, Ranks
<1> HIDE DEF r, q
<1>3. Band(r) \in 0 .. 3 /\ Band(q) \in 0 .. 3 /\ Band(r) >= Band(q)
  BY ONLY <1>1 DEF Band, Ranks
<1>4. x \in Nat /\ y \in Nat /\ x >= y + 238
  BY ONLY <1>1, ShapeAssumption, l \in 0 .. Layers - 1, e \in Ranks, f \in Ranks
     DEF Bonus, Ranks
<1>5. Ulp(Band(q)) \in {238, 119, 1}
  BY ONLY <1>3 DEF Ulp
<1> HIDE DEF x, y
<1>6. CASE Band(r) > Band(q)
  BY ONLY <1>2, <1>6 DEF HigherScore
<1>7. CASE Band(r) = Band(q)
  <2> DEFINE u == Ulp(Band(q))
  <2>1. ((x + u \div 2) \div u) * u > ((y + u \div 2) \div u) * u
    BY ONLY <1>4, <1>5, RoundingKeepsRanks
  <2> QED BY ONLY <1>2, <1>7, <2>1 DEF HigherScore
<1> QED BY ONLY <1>3, <1>6, <1>7

\* An expert with fewer than n hotter ones in its layer is among the first n.
LEMMA FirstRanksAreKept ==
  ASSUME NEW counts, counts \in [Keys -> Nat], NEW l \in 0 .. Layers - 1,
         NEW e \in Ranks, NEW n \in Nat, Rank(counts, l, e) < n
  PROVE  e \in Top(ExportedScores(counts, l), n)
<1> DEFINE scores == ExportedScores(counts, l)
           A == {f \in DOMAIN scores \ {e} : ~HigherScore(scores[e], scores[f])}
           B == {f \in Ranks : Hotter(counts, <<l, f>>, <<l, e>>)}
<1>1. DOMAIN scores = Ranks
  BY DEF ExportedScores, Ranks
<1>2. ASSUME NEW f \in A PROVE f \in B
  <2>1. f \in Ranks /\ f # e /\ ~HigherScore(scores[e], scores[f])
    BY <1>1
  <2>2. ~Hotter(counts, <<l, e>>, <<l, f>>)
    BY ONLY <2>1, counts \in [Keys -> Nat], l \in 0 .. Layers - 1, e \in Ranks,
            LowerRanksScoreHigher
  <2>3. Hotter(counts, <<l, f>>, <<l, e>>)
    BY ONLY <2>1, <2>2, counts \in [Keys -> Nat], l \in 0 .. Layers - 1, e \in Ranks,
            HotterIsStrict
  <2> QED BY ONLY <2>1, <2>3
<1>3. Rank(counts, l, e) = Cardinality(B) /\ B \in SUBSET Ranks
  BY DEF Rank, Ranks
<1>4. IsFiniteSet(Ranks)
  BY ONLY ShapeAssumption, FS_Interval DEF Ranks
<1> HIDE DEF A, B
<1>5. IsFiniteSet(B)
  BY ONLY <1>3, <1>4, FS_Subset
<1>6. A \in SUBSET B
  BY ONLY <1>2
<1>7. IsFiniteSet(A) /\ Cardinality(A) <= Cardinality(B)
  BY ONLY <1>5, <1>6, FS_Subset
<1>8. Cardinality(A) \in Nat /\ Cardinality(B) \in Nat
  BY ONLY <1>5, <1>7, FS_CardinalityType
<1>9. Cardinality(A) < n
  BY ONLY <1>3, <1>7, <1>8, Rank(counts, l, e) < n, n \in Nat
<1> QED BY ONLY <1>1, <1>9, e \in Ranks DEF Top, A

\* Hits of a profile.
IsHits(hits) ==
  /\ hits \in [DOMAIN hits -> Nat]
  /\ DOMAIN hits \subseteq Keys /\ IsFiniteSet(DOMAIN hits)

\* A budget chooses at most as many experts: of the coldest one's hotter ones
\* there are fewer, and those are all the others.
LEMMA MostCommonAreFew ==
  ASSUME NEW hits, IsHits(hits), NEW n \in Nat \ {0}
  PROVE  /\ MostCommon(hits, n) \in SUBSET DOMAIN hits
         /\ IsFiniteSet(MostCommon(hits, n)) /\ Cardinality(MostCommon(hits, n)) <= n
<1> DEFINE D == DOMAIN hits
           H(key) == {k \in D : Hotter(hits, k, key)}
           A == MostCommon(hits, n)
           C == {Cardinality(H(key)) : key \in A}
<1>1. D \in SUBSET Keys /\ hits \in [D -> Nat] /\ IsFiniteSet(D)
  BY DEF IsHits
<1>2. A = {key \in D : Cardinality(H(key)) < n}
  BY DEF MostCommon
<1>3. A \in SUBSET D
  BY <1>2
<1>4. /\ \A a, b \in D : a # b => Hotter(hits, a, b) \/ Hotter(hits, b, a)
      /\ \A a \in D : ~Hotter(hits, a, a)
      /\ \A a, b, c \in D : Hotter(hits, a, b) /\ Hotter(hits, b, c) => Hotter(hits, a, c)
  BY ONLY <1>1, HotterIsAnOrder
<1>5. \A key : H(key) \in SUBSET D
  OBVIOUS
<1>6. \A a, b \in D : Hotter(hits, a, b) => H(a) \subseteq H(b) /\ a \in H(b) /\ a \notin H(a)
  BY <1>4
<1>7. \A a, b \in D : Hotter(hits, b, a) => b \in H(a)
  OBVIOUS
<1> HIDE DEF D, H, A
<1>8. IsFiniteSet(A)
  BY ONLY <1>1, <1>3, FS_Subset
<1>9. \A key : IsFiniteSet(H(key)) /\ Cardinality(H(key)) \in Nat
  BY ONLY <1>1, <1>5, FS_Subset, FS_CardinalityType
<1>10. CASE A = {}
  BY ONLY <1>8, <1>10, <1>3, n \in Nat \ {0}, FS_EmptySet DEF A, D
<1>11. CASE A # {}
  <2>1. C \in SUBSET Nat /\ C # {}
    BY ONLY <1>9, <1>11
  <2>2. IsFiniteSet(C)
    <3> DEFINE f == [key \in A |-> Cardinality(H(key))]
    <3>1. f \in Surjection(A, C)
      BY DEF Surjection
    <3> HIDE DEF f, C
    <3> QED BY ONLY <1>8, <3>1, FS_Surjection
  <2>3. PICK z \in A : \A a \in A : Cardinality(H(z)) >= Cardinality(H(a))
    <3>1. Max(C) \in C /\ \A x \in C : Max(C) >= x
      <4> HIDE DEF C
      <4> QED BY ONLY <2>1, <2>2, GreatestIs
    <3> QED BY ONLY <3>1
  <2>4. ASSUME NEW a \in A, a # z PROVE a \in H(z)
    <3>1. a \in D /\ z \in D
      BY ONLY <1>3, <2>3, <2>4
    <3>2. ASSUME Hotter(hits, z, a) PROVE FALSE
      <4>1. H(z) \subseteq H(a) /\ z \in H(a) /\ z \notin H(z)
        BY ONLY <1>6, <3>1, <3>2
      <4>2. /\ Cardinality(H(z)) <= Cardinality(H(a))
            /\ (Cardinality(H(a)) = Cardinality(H(z)) => H(a) = H(z))
        BY ONLY <1>9, <4>1, FS_Subset
      <4>3. Cardinality(H(z)) >= Cardinality(H(a))
        BY ONLY <2>3, <2>4
      <4> QED BY ONLY <1>9, <4>1, <4>2, <4>3
    <3> QED BY ONLY <1>4, <1>7, <2>4, <3>1, <3>2
  <2>5. A \ {z} \in SUBSET H(z)
    BY ONLY <2>4
  <2>6. Cardinality(A \ {z}) <= Cardinality(H(z))
    BY ONLY <1>9, <2>5, FS_Subset
  <2>7. Cardinality(A \ {z}) = Cardinality(A) - 1
    BY ONLY <1>8, <2>3, FS_RemoveElement
  <2>8. Cardinality(H(z)) < n
    BY ONLY <1>2, <2>3
  <2>9. Cardinality(A) \in Nat /\ Cardinality(H(z)) \in Nat
    BY ONLY <1>8, <1>9, FS_CardinalityType
  <2>10. Cardinality(A) <= n
    BY ONLY <2>6, <2>7, <2>8, <2>9, n \in Nat \ {0}
  <2> QED BY ONLY <1>3, <1>8, <2>10 DEF A, D
<1> QED BY <1>10, <1>11

LEMMA KeysAreFinite == IsFiniteSet(Keys) /\ Keys # {}
<1>1. Layers \in Nat \ {0} /\ Experts \in Nat \ {0}
  BY ShapeAssumption
<1>2. IsFiniteSet(0 .. Layers - 1) /\ IsFiniteSet(0 .. Experts - 1)
  BY ONLY <1>1, FS_Interval
<1>3. <<0, 0>> \in Keys
  BY <1>1 DEF Keys
<1> QED BY ONLY <1>2, <1>3, FS_Product DEF Keys

\* Of few experts, one that is not kept can be exchanged for one that is and
\* ranks no lower: among the hotter ones of its layer, which are n or more, the
\* first that is not one of the few.
LEMMA SomeoneElseIsKept ==
  ASSUME NEW counts, counts \in [Keys -> Nat], NEW n \in Nat,
         NEW A \in SUBSET Keys, IsFiniteSet(A), Cardinality(A) <= n,
         NEW x \in A, x \notin Kept(counts, n)
  PROVE  \E y \in Kept(counts, n) : y \notin A /\ counts[y] >= counts[x]
<1>1. PICK l \in 0 .. Layers - 1, e \in Ranks : x = <<l, e>>
  BY DEF Keys, Ranks
<1> DEFINE H(f) == {g \in Ranks : Hotter(counts, <<l, g>>, <<l, f>>)}
           key == [f \in Ranks |-> <<l, f>>]
           Free == {f \in H(e) : <<l, f>> \notin A}
           free == {Rank(counts, l, f) : f \in Free}
           B == A \ {x}
<1>2. \A f \in Ranks : Rank(counts, l, f) = Cardinality(H(f))
  BY DEF Rank, Ranks
<1>3. \A f \in Ranks : H(f) \in SUBSET Ranks
  OBVIOUS
<1>4. IsFiniteSet(Ranks)
  BY ONLY ShapeAssumption, FS_Interval DEF Ranks
<1>5. ASSUME NEW f \in Ranks, Rank(counts, l, f) < n PROVE <<l, f>> \in Kept(counts, n)
  <2>1. f \in Top(ExportedScores(counts, l), n)
    BY ONLY <1>5, counts \in [Keys -> Nat], n \in Nat, l \in 0 .. Layers - 1,
            FirstRanksAreKept
  <2> QED BY <2>1 DEF Kept, Keys, Ranks
<1>6. /\ IsFiniteSet(B) /\ Cardinality(B) = Cardinality(A) - 1
      /\ Cardinality(A) \in Nat /\ Cardinality(B) \in Nat
  BY ONLY IsFiniteSet(A), x \in A, FS_RemoveElement, FS_CardinalityType
<1>7. \A f \in Ranks : IsFiniteSet(H(f)) /\ Cardinality(H(f)) \in Nat
  <2> HIDE DEF H
  <2> QED BY ONLY <1>3, <1>4, FS_Subset, FS_CardinalityType
<1>8. \A f \in Ranks : ~Hotter(counts, <<l, f>>, <<l, f>>)
  BY ONLY counts \in [Keys -> Nat], l \in 0 .. Layers - 1, HotterIsStrict
\* As many hotter experts as fit among the others are fewer than n.
<1>9. ASSUME NEW f \in Ranks, \A g \in H(f) : <<l, g>> \in B
      PROVE  Rank(counts, l, f) < n
  <2> DEFINE h == [g \in H(f) |-> <<l, g>>]
             F == H(f)
  <2>1. h \in Injection(F, B)
    BY <1>9 DEF Injection, IsInjective
  <2> HIDE DEF h, F, B
  <2>2. Cardinality(F) <= Cardinality(B)
    BY ONLY <1>6, <2>1, FS_Injection
  <2> QED BY ONLY <1>2, <1>6, <1>7, <2>2, n \in Nat, f \in Ranks, Cardinality(A) <= n DEF F
<1>10. Free # {}
  <2> SUFFICES ASSUME Free = {} PROVE FALSE
    OBVIOUS
  <2>1. \A g \in H(e) : <<l, g>> \in B
    BY <1>1, <1>8
  <2>2. Rank(counts, l, e) < n
    BY ONLY <1>9, <2>1, e \in Ranks
  <2> QED BY <1>1, <1>5, <2>2
<1>11. PICK f \in Free : \A g \in Free : Rank(counts, l, f) <= Rank(counts, l, g)
  <2>1. free \in SUBSET Nat /\ free # {}
    BY <1>2, <1>7, <1>10
  <2>2. \E m \in free : \A k \in free : m <= k
    <3> HIDE DEF free
    <3> QED BY ONLY <2>1, LeastOf
  <2> QED BY ONLY <2>2
<1>12. f \in Ranks /\ <<l, f>> \notin A /\ Hotter(counts, <<l, f>>, <<l, e>>)
  BY <1>11
<1>13. ASSUME NEW g \in H(f) PROVE <<l, g>> \in B
  <2>1. g \in Ranks /\ Hotter(counts, <<l, g>>, <<l, f>>)
    BY <1>13
  <2>2. Rank(counts, l, g) < Rank(counts, l, f) /\ Rank(counts, l, g) \in Ranks
        /\ Rank(counts, l, f) \in Ranks
    BY ONLY <1>12, <2>1, counts \in [Keys -> Nat], l \in 0 .. Layers - 1, RanksAreOrdered
  <2>3. g \notin Free
    <3>1. Rank(counts, l, g) \in Int /\ Rank(counts, l, f) \in Int
      BY ONLY <2>2, ShapeAssumption DEF Ranks
    <3> HIDE DEF Free
    <3> QED BY ONLY <1>11, <2>2, <3>1
  <2>4. Hotter(counts, <<l, g>>, <<l, e>>)
    BY ONLY <1>12, <2>1, e \in Ranks, counts \in [Keys -> Nat], l \in 0 .. Layers - 1,
            HotterIsStrict
  <2>5. g # e
    BY ONLY <1>8, <2>4, e \in Ranks
  <2> QED BY <1>1, <2>1, <2>3, <2>4, <2>5
<1>14. <<l, f>> \in Kept(counts, n)
  <2> HIDE DEF H, B
  <2> QED BY ONLY <1>5, <1>9, <1>12, <1>13
<1>15. counts[<<l, f>>] >= counts[<<l, e>>]
  <2>1. <<l, f>> \in Keys /\ <<l, e>> \in Keys
    BY <1>12 DEF Keys, Ranks
  <2> QED BY ONLY <1>12, <2>1, counts \in [Keys -> Nat] DEF Hotter
<1> QED BY ONLY <1>1, <1>12, <1>14, <1>15

\* An exchange for something that is worth no less.
LEMMA ExchangeIsNoLoss ==
  ASSUME NEW S, IsFiniteSet(S), NEW w \in [S -> Nat], NEW A \in SUBSET S,
         NEW x \in A, NEW y \in S \ A, w[y] >= w[x]
  PROVE  LET B == (A \ {x}) \union {y}
         IN  Totals(w, B)[B] >= Totals(w, A)[A]
<1> DEFINE B == (A \ {x}) \union {y}
<1>1. B \in SUBSET S /\ y \in B /\ B \ {y} = A \ {x} /\ A \ {x} \in SUBSET S
  OBVIOUS
<1>2. Totals(w, A)[A] = w[x] + Totals(w, A \ {x})[A \ {x}]
  BY ONLY IsFiniteSet(S), w \in [S -> Nat], A \in SUBSET S, x \in A, TotalTakesAny
<1>3. Totals(w, B)[B] = w[y] + Totals(w, B \ {y})[B \ {y}]
  <2> HIDE DEF B
  <2> QED BY ONLY IsFiniteSet(S), w \in [S -> Nat], <1>1, TotalTakesAny
<1>4. Totals(w, A \ {x})[A \ {x}] \in Nat
  BY ONLY IsFiniteSet(S), w \in [S -> Nat], <1>1, TotalType
<1>5. w[x] \in Nat /\ w[y] \in Nat
  OBVIOUS
<1> HIDE DEF B
<1>6. Totals(w, B)[B] >= Totals(w, A)[A]
  BY ONLY <1>1, <1>2, <1>3, <1>4, <1>5, w[y] >= w[x]
<1> QED BY ONLY <1>6 DEF B

\* What is kept by its rank is worth at least what any n experts are, if a
\* higher count is worth no less: exchange by exchange they become kept ones.
LEMMA KeptAreWorthMost ==
  ASSUME NEW counts, counts \in [Keys -> Nat], NEW n \in Nat, NEW w \in [Keys -> Nat],
         \A a, b \in Keys : counts[a] >= counts[b] => w[a] >= w[b],
         NEW A0 \in SUBSET Keys, Cardinality(A0) <= n
  PROVE  /\ HitsOf(w, A0) \in Nat
         /\ HitsOf(w, Kept(counts, n)) >= HitsOf(w, A0)
<1> DEFINE K == Kept(counts, n)
           T(s) == Totals(w, s)[s]
           bad(A) == Cardinality(A) <= n /\ ~(T(K) >= T(A))
           Bad == {D \in SUBSET Keys : \E A \in SUBSET Keys : D = A \ K /\ bad(A)}
<1>1. K \in SUBSET Keys
  BY DEF Kept
<1>2. \A A \in SUBSET Keys : IsFiniteSet(A) /\ Cardinality(A) \in Nat
  BY ONLY KeysAreFinite, FS_Subset, FS_CardinalityType
<1>3. \A A \in SUBSET Keys : T(A) \in Nat /\ HitsOf(w, A) = T(A)
  BY ONLY KeysAreFinite, w \in [Keys -> Nat], TotalType, SumOnSetDef DEF HitsOf
<1> HIDE DEF T, K
<1>4. ASSUME NEW A \in SUBSET Keys, A \ K = {} PROVE T(K) >= T(A)
  <2>1. \A k \in A \ K : w[k] = 0
    BY ONLY <1>4
  <2>2. /\ SumFunctionOnSet(w, A) \in Nat /\ SumFunctionOnSet(w, K) \in Nat
        /\ SumFunctionOnSet(w, A) <= SumFunctionOnSet(w, K)
    BY ONLY KeysAreFinite, w \in [Keys -> Nat], <1>1, A \in SUBSET Keys, <2>1, SumOfMore
  <2>3. T(A) = SumFunctionOnSet(w, A) /\ T(K) = SumFunctionOnSet(w, K)
    BY ONLY SumOnSetDef DEF T
  <2> QED BY ONLY <2>2, <2>3
<1>5. ASSUME NEW A \in SUBSET Keys, bad(A)
      PROVE  \E B \in SUBSET Keys : bad(B) /\ B \ K \in SUBSET (A \ K) /\ B \ K # A \ K
  <2>1. PICK x \in A : x \notin K
    BY ONLY <1>4, <1>5
  <2>2. PICK y \in K : y \notin A /\ counts[y] >= counts[x]
    BY ONLY <1>2, <1>5, <2>1, counts \in [Keys -> Nat], n \in Nat, SomeoneElseIsKept DEF K
  <2> DEFINE B == (A \ {x}) \union {y}
  <2>3. x \in Keys /\ y \in Keys /\ A \ {x} \in SUBSET Keys /\ y \notin A \ {x}
    BY ONLY <1>1, <2>1, <2>2, A \in SUBSET Keys
  <2>4. B \in SUBSET Keys
    BY ONLY <2>3
  <2>5. Cardinality(B) = Cardinality(A)
    <3>1. Cardinality(A \ {x}) = Cardinality(A) - 1 /\ IsFiniteSet(A \ {x})
      BY ONLY <1>2, <2>1, A \in SUBSET Keys, FS_RemoveElement
    <3>2. Cardinality(B) = Cardinality(A \ {x}) + 1
      BY ONLY <2>3, <3>1, FS_AddElement
    <3>3. Cardinality(A) \in Nat
      BY ONLY <1>2, A \in SUBSET Keys
    <3> HIDE DEF B
    <3> QED BY ONLY <3>1, <3>2, <3>3
  <2>6. w[y] >= w[x]
    BY ONLY <2>2, <2>3, \A a, b \in Keys : counts[a] >= counts[b] => w[a] >= w[b]
  <2>7. T(B) >= T(A)
    BY ONLY KeysAreFinite, w \in [Keys -> Nat], A \in SUBSET Keys, <2>1, <2>2, <2>3, <2>6,
            ExchangeIsNoLoss DEF T
  <2>8. B \ K \in SUBSET (A \ K) /\ x \in A \ K /\ x \notin B
    BY ONLY <2>1, <2>2
  <2> HIDE DEF B
  <2>9. T(A) \in Nat /\ T(B) \in Nat /\ T(K) \in Nat
    BY ONLY <1>1, <1>3, <2>4, A \in SUBSET Keys
  <2>10. bad(B)
    BY ONLY <1>5, <2>5, <2>7, <2>9
  <2>11. B \ K # A \ K
    BY ONLY <2>8
  <2> QED BY ONLY <2>4, <2>8, <2>10, <2>11
<1>6. Bad = {}
  <2> SUFFICES ASSUME Bad # {} PROVE FALSE
    OBVIOUS
  <2>1. Bad \in SUBSET SUBSET Keys
    OBVIOUS
  <2>2. PICK D \in Bad : \A u \in SUBSET D : u # D => u \notin Bad
    <3> HIDE DEF Bad
    <3> QED BY ONLY KeysAreFinite, <2>1, Bad # {}, SmallestException
  <2> HIDE DEF bad
  <2>3. PICK A \in SUBSET Keys : D = A \ K /\ bad(A)
    BY ONLY <2>2
  <2>4. PICK B \in SUBSET Keys : bad(B) /\ B \ K \in SUBSET D /\ B \ K # D
    BY ONLY <1>5, <2>3
  <2>5. B \ K \in Bad
    BY ONLY <2>4
  <2> HIDE DEF Bad
  <2> QED BY ONLY <2>2, <2>4, <2>5
<1>7. T(K) >= T(A0)
  <2>1. A0 \ K \notin Bad
    BY ONLY <1>6
  <2> QED BY ONLY <2>1, A0 \in SUBSET Keys, Cardinality(A0) <= n
<1> QED BY ONLY <1>1, <1>3, <1>7, A0 \in SUBSET Keys DEF K

LEMMA HitsAreNumbers ==
  ASSUME NEW hits, IsHits(hits), NEW A \in SUBSET DOMAIN hits
  PROVE  HitsOf(hits, A) \in Nat
<1> DEFINE K == DOMAIN hits
<1>1. hits \in [K -> Nat] /\ IsFiniteSet(K) /\ A \in SUBSET K
  BY DEF IsHits
<1> HIDE DEF K
<1>2. Totals(hits, A)[A] \in Nat
  BY ONLY <1>1, TotalType
<1> QED BY ONLY <1>2, SumOnSetDef DEF HitsOf

-----------------------------------------------------------------------------
\* Single precision: nothing changes up to Exact, and what is larger stays so.
LEMMA SingleIs ==
  ASSUME NEW n \in Nat, Finite(n)
  PROVE  /\ Single(n) \in Nat
         /\ n <= Exact => Single(n) = n
         /\ n > Exact => Single(n) >= Exact
<1> DEFINE s == Min(Wide(n))
           q == n \div s
           r == n % s
           up == 2 * r > s \/ (2 * r = s /\ q % 2 = 1)
           more == IF up THEN 1 ELSE 0
<1>1. s \in Spacings /\ n < Exact * s /\ \A t \in Spacings : n < Exact * t => s <= t
  <2>1. Wide(n) \in SUBSET Nat /\ Wide(n) # {}
    BY SingleAssumption DEF Wide, Finite
  <2>2. s \in Wide(n) /\ \A t \in Wide(n) : s <= t
    BY ONLY <2>1, LeastIs
  <2> HIDE DEF s
  <2> QED BY ONLY <2>2 DEF Wide
<1>2. Single(n) = s * (q + more)
  BY DEF Single
<1>3. s \in Nat \ {0} /\ Exact \in Nat \ {0}
  BY <1>1, SingleAssumption
<1> HIDE DEF s
<1>4. n = s * q + r /\ q \in Nat /\ r \in 0 .. s - 1
  BY ONLY <1>3, n \in Nat
<1>5. more \in {0, 1} /\ (r = 0 => more = 0)
  BY ONLY <1>3, <1>4
<1>6. CASE s = 1
  <2>1. q = n /\ r = 0
    BY ONLY <1>4, <1>6, n \in Nat
  <2> HIDE DEF q, r, more
  <2>2. Single(n) = n
    BY ONLY <1>2, <1>5, <1>6, <2>1, n \in Nat
  <2> QED BY ONLY <1>1, <1>3, <1>6, <2>2, n \in Nat
<1>7. CASE s # 1
  <2> HIDE DEF q, r, more
  <2>1. PICK half \in Spacings : s = 2 * half
    BY ONLY <1>1, <1>7, SingleAssumption
  <2>2. half \in Nat \ {0} /\ n >= Exact * half
    <3>1. half \in Nat \ {0}
      BY ONLY <2>1, SingleAssumption
    <3>2. ~(n < Exact * half)
      BY ONLY <1>1, <2>1, <3>1
    <3>3. Exact * half \in Nat
      BY ONLY <1>3, <3>1
    <3> QED BY ONLY <3>1, <3>2, <3>3, n \in Nat
  <2>3. PICK m \in Nat \ {0} : Exact = 2 * m
    <3>1. Exact = 2 * (Exact \div 2) /\ Exact \div 2 \in Nat \ {0}
      BY ONLY SingleAssumption
    <3> QED BY ONLY <3>1
  <2>4. n >= s * m /\ s * m >= Exact
    <3>1. Exact * half = s * m
      BY ONLY <2>1, <2>2, <2>3
    <3>2. s * m = Exact + (half - 1) * Exact /\ (half - 1) * Exact \in Nat
      BY ONLY <1>3, <2>2, <3>1
    <3>3. s * m \in Nat
      BY ONLY <1>3, <2>3
    <3> QED BY ONLY <1>3, <2>2, <3>1, <3>2, <3>3, n \in Nat
  <2>5. q >= m
    <3>1. q \in Nat /\ m \in Nat
      BY ONLY <1>4, <2>3
    <3>2. ASSUME m >= q + 1 PROVE FALSE
      <4>1. s * m = s * (q + 1) + s * (m - q - 1) /\ s * (m - q - 1) \in Nat
        BY ONLY <1>3, <1>4, <2>3, <3>2
      <4>2. s * (q + 1) = s * q + s /\ s * q \in Nat
        BY ONLY <1>3, <1>4
      <4> QED BY ONLY <1>3, <1>4, <2>4, <4>1, <4>2, n \in Nat
    <3> QED BY ONLY <3>1, <3>2
  <2>6. Single(n) \in Nat /\ Single(n) >= s * m
    <3>1. s * (q + more) = s * m + s * (q + more - m) /\ s * (q + more - m) \in Nat
      BY ONLY <1>3, <1>4, <1>5, <2>3, <2>5
    <3>2. s * m \in Nat
      BY ONLY <1>3, <2>3
    <3> QED BY ONLY <1>2, <3>1, <3>2
  <2>7. s * m \in Nat
    BY ONLY <1>3, <2>3
  <2>8. Single(n) >= Exact
    BY ONLY <1>3, <2>4, <2>6, <2>7
  <2>9. ASSUME n <= Exact PROVE Single(n) = n
    <3>1. n = s * m
      BY ONLY <1>3, <2>4, <2>7, <2>9, n \in Nat
    <3>2. s * q <= s * m /\ s * q \in Nat /\ s * q = s * m + s * (q - m) /\ s * (q - m) \in Nat
      <4>1. s * q \in Nat /\ s * q = s * m + s * (q - m) /\ s * (q - m) \in Nat
        BY ONLY <1>3, <1>4, <2>3, <2>5
      <4> QED BY ONLY <1>3, <1>4, <2>7, <3>1, <4>1
    <3>3. r = 0 /\ s * q = n
      BY ONLY <1>4, <1>3, <2>7, <3>1, <3>2
    <3>4. Single(n) = s * q
      BY ONLY <1>2, <1>3, <1>4, <1>5, <3>3
    <3> QED BY ONLY <3>3, <3>4
  <2> QED BY ONLY <2>6, <2>8, <2>9
<1> QED BY <1>6, <1>7

\* The sum of what remains to be added is the number of hits, as far as that
\* is exact.
Agrees(sum, h) == (h <= Exact => sum = h) /\ (h > Exact => sum >= Exact)

LEMMA RoundedSum ==
  ASSUME NEW D, IsFiniteSet(D), NEW f \in [D -> Nat], NEW g,
         g = [i \in D |-> Single(f[i])], \A i \in D : Finite(f[i])
  PROVE  g \in [D -> Nat] /\ SumFunction(f) \in Nat /\ Agrees(SumFunction(g), SumFunction(f))
<1>1. \A i \in D :
        /\ Single(f[i]) \in Nat
        /\ f[i] <= Exact => Single(f[i]) = f[i]
        /\ f[i] > Exact => Single(f[i]) >= Exact
  BY SingleIs
<1>2. g \in [D -> Nat]
  BY <1>1
<1>3. SumFunction(f) \in Nat /\ SumFunction(g) \in Nat
  <2>1. DOMAIN f = D /\ DOMAIN g = D
    BY <1>2
  <2> QED BY ONLY <1>2, <2>1, IsFiniteSet(D), f \in [D -> Nat], SumDef, TotalType
<1>4. Exact \in Nat
  BY SingleAssumption
<1>5. CASE \A i \in D : f[i] <= Exact
  <2>1. g = f
    BY <1>1, <1>5
  <2> QED BY ONLY <1>2, <1>3, <1>4, <2>1 DEF Agrees
<1>6. CASE \E i \in D : ~(f[i] <= Exact)
  <2>1. PICK i \in D : ~(f[i] <= Exact)
    BY <1>6
  <2>2. f[i] \in Nat /\ g[i] \in Nat /\ g[i] >= Exact
    BY <1>1, <1>4, <2>1
  <2>3. /\ SumFunction(f) = f[i] + SumFunction([y \in D \ {i} |-> f[y]])
        /\ SumFunction([y \in D \ {i} |-> f[y]]) \in Nat
    BY ONLY IsFiniteSet(D), f \in [D -> Nat], <2>1, SumTakesAny
  <2>4. /\ SumFunction(g) = g[i] + SumFunction([y \in D \ {i} |-> g[y]])
        /\ SumFunction([y \in D \ {i} |-> g[y]]) \in Nat
    BY ONLY IsFiniteSet(D), <1>2, <2>1, SumTakesAny
  <2>5. SumFunction(f) > Exact /\ SumFunction(g) >= Exact
    BY ONLY <1>4, <2>1, <2>2, <2>3, <2>4
  <2> QED BY ONLY <1>2, <1>3, <1>4, <2>5 DEF Agrees
<1> QED BY <1>5, <1>6

\* Two terms become their rounded sum.
LEMMA AddedSum ==
  ASSUME NEW D, IsFiniteSet(D), NEW f \in [D -> Nat], NEW h \in Nat,
         Agrees(SumFunction(f), h), NEW i \in D, NEW j \in D, i # j,
         Finite(f[i] + f[j]), NEW g,
         g = [k \in D \ {j} |-> IF k = i THEN Single(f[i] + f[j]) ELSE f[k]]
  PROVE  g \in [D \ {j} -> Nat] /\ Agrees(SumFunction(g), h)
<1> DEFINE a == f[i] + f[j]
           E == D \ {j}
           F == E \ {i}
           f1 == [y \in E |-> f[y]]
           f2 == [y \in F |-> f[y]]
<1>1. a \in Nat /\ f[i] \in Nat /\ f[j] \in Nat
  OBVIOUS
<1>2. /\ Single(a) \in Nat
      /\ a <= Exact => Single(a) = a
      /\ a > Exact => Single(a) >= Exact
  <2> HIDE DEF a
  <2>1. Finite(a)
    BY DEF a
  <2> QED BY ONLY <1>1, <2>1, SingleIs
<1>3. g \in [E -> Nat]
  BY <1>2
<1>4. IsFiniteSet(E) /\ i \in E
  BY ONLY IsFiniteSet(D), FS_RemoveElement, i \in D, i # j
<1>5. SumFunction(f) = f[j] + SumFunction(f1) /\ SumFunction(f1) \in Nat
  BY ONLY IsFiniteSet(D), f \in [D -> Nat], j \in D, SumTakesAny
<1>6. SumFunction(f1) = f1[i] + SumFunction(f2) /\ SumFunction(f2) \in Nat
  <2>1. f1 \in [E -> Nat]
    OBVIOUS
  <2>2. [y \in E \ {i} |-> f1[y]] = f2
    OBVIOUS
  <2>3. /\ SumFunction(f1) = f1[i] + SumFunction([y \in E \ {i} |-> f1[y]])
        /\ SumFunction([y \in E \ {i} |-> f1[y]]) \in Nat
    <3> HIDE DEF f1, E
    <3> QED BY ONLY <1>4, <2>1, SumTakesAny
  <2> QED BY ONLY <2>2, <2>3
<1>7. SumFunction(g) = g[i] + SumFunction(f2)
  <2>1. [y \in E \ {i} |-> g[y]] = f2
    OBVIOUS
  <2>2. SumFunction(g) = g[i] + SumFunction([y \in E \ {i} |-> g[y]])
    <3> HIDE DEF E
    <3> QED BY ONLY <1>3, <1>4, SumTakesAny
  <2> QED BY ONLY <2>1, <2>2
<1>8. g[i] = Single(a) /\ f1[i] = f[i]
  BY <1>4
<1>9. Exact \in Nat
  BY SingleAssumption
<1> DEFINE R == SumFunction(f2)
<1>10. SumFunction(f) = a + R /\ SumFunction(g) = Single(a) + R /\ R \in Nat
  BY ONLY <1>1, <1>5, <1>6, <1>7, <1>8
<1> HIDE DEF a, R, f1, f2, E
<1>11. Agrees(SumFunction(g), h)
  BY ONLY <1>1, <1>2, <1>9, <1>10, h \in Nat, Agrees(SumFunction(f), h) DEF Agrees
<1> QED BY ONLY <1>3, <1>11 DEF E

\* The terms of one expert.
AreTerms(t, h) ==
  /\ IsFiniteSet(DOMAIN t) /\ DOMAIN t \in SUBSET Nat
  /\ t \in [DOMAIN t -> Nat] /\ Agrees(SumFunction(t), h)

HitsOfProfile == Counts(Hits(profile.rows))

\* Nothing is read yet, or what remains to be added agrees with the profile.
TermsInv ==
  /\ profile \in Profiles /\ (budgets = {} \/ budgets \in BudgetSets)
  /\ terms = NoTerms \/ (/\ DOMAIN terms = Keys
                         /\ \A key \in Keys : AreTerms(terms[key], HitsOfProfile[key]))

LEMMA CountsType ==
  ASSUME NEW p \in Profiles
  PROVE  IsHits(Hits(p.rows)) /\ Counts(Hits(p.rows)) \in [Keys -> Nat]
<1>1. IsHits(Hits(p.rows))
  BY HitsType DEF IsHits
<1>2. \A hits : IsHits(hits) => Counts(hits) \in [Keys -> Nat]
  BY DEF IsHits, Counts
<1> QED BY ONLY <1>1, <1>2

LEMMA ConvertKeepsTerms ==
  ASSUME TermsInv, Convert
  PROVE  TermsInv'
<1>1. /\ profile \in Profiles /\ profile' = profile /\ budgets' = budgets
      /\ budgets = {} \/ budgets \in BudgetSets
  BY DEF TermsInv, Convert
<1> DEFINE logical == profile.logical
           D == DOMAIN logical
           f(key) == [i \in D |-> logical[i][key]]
           g(key) == [i \in D |-> Single(logical[i][key])]
<1>2. /\ logical \in Seq([Keys -> Nat])
      /\ \A key \in Keys : SumFunction(f(key)) = HitsOfProfile[key]
  BY <1>1, ProfileAssumption DEF HitsOfProfile
<1>3. /\ \A i \in D, key \in Keys : Finite(logical[i][key])
      /\ terms' = [key \in Keys |-> g(key)]
  BY DEF Convert
<1> HIDE DEF logical
<1>4. IsFiniteSet(D) /\ D \in SUBSET Nat
  <2>1. Len(logical) \in Nat /\ D = 1 .. Len(logical)
    BY <1>2
  <2> QED BY ONLY <2>1, FS_Interval
<1>5. ASSUME NEW key \in Keys PROVE AreTerms(terms'[key], HitsOfProfile[key])
  <2>1. f(key) \in [D -> Nat]
    BY <1>2
  <2>2. g(key) = [i \in D |-> Single(f(key)[i])] /\ \A i \in D : Finite(f(key)[i])
    BY <1>3
  <2>3. terms'[key] = g(key) /\ DOMAIN g(key) = D
    BY <1>3
  <2>4. SumFunction(f(key)) = HitsOfProfile[key]
    BY <1>2
  <2> HIDE DEF D, f, g
  <2>5. g(key) \in [D -> Nat] /\ Agrees(SumFunction(g(key)), SumFunction(f(key)))
    BY ONLY <1>4, <2>1, <2>2, RoundedSum
  <2> QED BY ONLY <1>4, <2>3, <2>4, <2>5 DEF AreTerms
<1>6. DOMAIN terms' = Keys
  BY <1>3
<1>7. HitsOfProfile' = HitsOfProfile
  BY <1>1 DEF HitsOfProfile
<1> QED BY ONLY <1>1, <1>5, <1>6, <1>7 DEF TermsInv

LEMMA AddKeepsTerms ==
  ASSUME TermsInv, NEW key \in Keys, NEW i \in DOMAIN terms[key],
         NEW j \in DOMAIN terms[key], Add(key, i, j)
  PROVE  TermsInv'
<1> DEFINE t == terms[key]
           sum == t[i] + t[j]
           u == [k \in DOMAIN t \ {j} |-> IF k = i THEN Single(sum) ELSE t[k]]
<1>1. /\ i < j /\ Finite(sum)
      /\ terms' = [terms EXCEPT ![key] = u]
      /\ profile' = profile /\ budgets' = budgets
  BY DEF Add
<1>2. terms # NoTerms
  BY DEF NoTerms
<1>3. /\ profile \in Profiles /\ (budgets = {} \/ budgets \in BudgetSets)
      /\ DOMAIN terms = Keys
      /\ \A k \in Keys : AreTerms(terms[k], HitsOfProfile[k])
  BY <1>2 DEF TermsInv
<1>4. /\ IsFiniteSet(DOMAIN t) /\ t \in [DOMAIN t -> Nat] /\ DOMAIN t \in SUBSET Nat
      /\ Agrees(SumFunction(t), HitsOfProfile[key])
  BY <1>3 DEF AreTerms
<1>5. HitsOfProfile[key] \in Nat
  BY <1>3, CountsType DEF HitsOfProfile
<1>6. i \in DOMAIN t /\ j \in DOMAIN t /\ i # j
  <2>1. i \in Nat
    BY <1>4
  <2> QED BY ONLY <1>1, <2>1, i \in DOMAIN t, j \in DOMAIN t
<1>7. terms' = [k \in Keys |-> IF k = key THEN u ELSE terms[k]]
  BY <1>1, <1>3
<1> HIDE DEF t
<1>8. u \in [DOMAIN t \ {j} -> Nat] /\ Agrees(SumFunction(u), HitsOfProfile[key])
  <2> DEFINE D == DOMAIN t
             v == u
  <2>1. Finite(t[i] + t[j]) /\ v = [k \in D \ {j} |-> IF k = i THEN Single(t[i] + t[j]) ELSE t[k]]
    BY <1>1
  <2> HIDE DEF v
  <2>2. v \in [D \ {j} -> Nat] /\ Agrees(SumFunction(v), HitsOfProfile[key])
    <3> HIDE DEF D
    <3>1. IsFiniteSet(D) /\ t \in [D -> Nat] /\ i \in D /\ j \in D
      BY <1>4, <1>6 DEF D
    <3> QED BY ONLY <1>4, <1>5, <1>6, <2>1, <3>1, AddedSum
  <2> QED BY ONLY <2>2 DEF v, D
<1>9. /\ IsFiniteSet(DOMAIN t \ {j}) /\ DOMAIN u = DOMAIN t \ {j}
      /\ DOMAIN t \ {j} \in SUBSET Nat
  BY ONLY <1>4, FS_RemoveElement
<1> HIDE DEF u
<1>10. AreTerms(u, HitsOfProfile[key])
  BY ONLY <1>8, <1>9 DEF AreTerms
<1>11. DOMAIN terms' = Keys /\ \A k \in Keys : AreTerms(terms'[k], HitsOfProfile[k])
  BY ONLY <1>3, <1>7, <1>10
<1>12. HitsOfProfile' = HitsOfProfile
  BY <1>1 DEF HitsOfProfile
<1> QED BY ONLY <1>1, <1>3, <1>11, <1>12 DEF TermsInv

LEMMA TermsAreKept == TuningSpec => []TermsInv
<1>1. TuningInit => TermsInv
  BY DEF TuningInit, TermsInv
<1>2. ASSUME TermsInv, [TuningNext]_tuningVars PROVE TermsInv'
  <2>1. CASE Retune
    BY <1>2, <2>1 DEF Retune, TermsInv, HitsOfProfile
  <2>2. CASE Convert
    BY ONLY <1>2, <2>2, ConvertKeepsTerms
  <2>3. ASSUME NEW key \in Keys, NEW i \in DOMAIN terms[key], NEW j \in DOMAIN terms[key],
               Add(key, i, j)
        PROVE  TermsInv'
    BY ONLY <1>2, <2>3, AddKeepsTerms
  <2>4. CASE UNCHANGED tuningVars
    BY <1>2, <2>4 DEF tuningVars, TermsInv, HitsOfProfile
  <2> QED BY <1>2, <2>1, <2>2, <2>3, <2>4 DEF TuningNext
<1> QED BY <1>1, <1>2, PTL DEF TuningSpec

\* Counts by which experts are ranked, instead of the hits of a profile.
AreSingles(counts, hits) ==
  /\ counts \in [Keys -> Nat]
  /\ \A key \in Keys : Agrees(counts[key], Counts(hits)[key])

LEMMA RankedAreSingles ==
  ASSUME TermsInv, Summed
  PROVE  AreSingles(Ranked, Hits(profile.rows))
<1>1. terms # NoTerms
  <2> SUFFICES ASSUME terms = NoTerms PROVE FALSE
    OBVIOUS
  <2>1. PICK key \in Keys : TRUE
    BY KeysAreFinite
  <2>2. DOMAIN terms[key] = {}
    BY DEF NoTerms
  <2>3. Cardinality(DOMAIN terms[key]) = 1
    BY <2>1 DEF Summed
  <2> QED BY ONLY <2>2, <2>3, FS_EmptySet
<1>2. ASSUME NEW key \in Keys
      PROVE  Ranked[key] \in Nat /\ Agrees(Ranked[key], HitsOfProfile[key])
  <2> DEFINE t == terms[key]
             x == CHOOSE i \in DOMAIN t : TRUE
  <2>1. /\ IsFiniteSet(DOMAIN t) /\ t \in [DOMAIN t -> Nat]
        /\ Agrees(SumFunction(t), HitsOfProfile[key])
    BY <1>1 DEF TermsInv, AreTerms
  <2>2. Cardinality(DOMAIN t) = 1
    BY DEF Summed
  <2>3. Ranked[key] = t[x]
    BY DEF Ranked
  <2> HIDE DEF t
  <2>4. \E y : DOMAIN t = {y}
    BY ONLY <2>1, <2>2, FS_Singleton
  <2>5. DOMAIN t = {x}
    BY ONLY <2>4
  <2> DEFINE D == DOMAIN t
  <2> HIDE DEF x
  <2>6. SumFunction(t) = t[x] + SumFunction([y \in D \ {x} |-> t[y]])
    <3>1. x \in D /\ IsFiniteSet(D) /\ t \in [D -> Nat]
      BY <2>1, <2>5
    <3> HIDE DEF D
    <3> QED BY ONLY <3>1, SumTakesAny
  <2>7. SumFunction([y \in D \ {x} |-> t[y]]) = 0
    <3>1. DOMAIN [y \in D \ {x} |-> t[y]] = {}
      BY ONLY <2>5
    <3> QED BY ONLY <3>1, SumOfNothing
  <2>8. t[x] \in Nat
    BY ONLY <2>1, <2>5
  <2>9. SumFunction(t) = t[x]
    BY ONLY <2>6, <2>7, <2>8
  <2> QED BY ONLY <2>1, <2>3, <2>8, <2>9
<1>3. DOMAIN Ranked = Keys /\ Ranked = [key \in Keys |-> Ranked[key]]
  BY DEF Ranked
<1> QED BY ONLY <1>2, <1>3 DEF AreSingles, HitsOfProfile

LEMMA CappedIs ==
  ASSUME NEW hits, IsHits(hits), NEW key \in Keys
  PROVE  /\ Counts(hits)[key] \in Nat
         /\ Capped(hits)[key] =
              IF Counts(hits)[key] <= Exact THEN Counts(hits)[key] ELSE Exact
<1> DEFINE c == Counts(hits)[key]
<1>1. c \in Nat /\ Exact \in Nat
  BY SingleAssumption DEF Counts, IsHits
<1>2. Capped(hits)[key] = Min({Exact, c})
  BY DEF Capped
<1> HIDE DEF c
<1>3. Min({Exact, c}) \in {Exact, c} /\ \A x \in {Exact, c} : Min({Exact, c}) <= x
  <2>1. {Exact, c} \in SUBSET Nat /\ {Exact, c} # {}
    BY ONLY <1>1
  <2> QED BY ONLY <2>1, LeastIs
<1>4. Capped(hits)[key] = IF c <= Exact THEN c ELSE Exact
  BY ONLY <1>1, <1>2, <1>3
<1> QED BY ONLY <1>1, <1>4 DEF c

\* The hits that count: what is kept by rank has the most of them.
LEMMA MostCommonIsKept ==
  ASSUME NEW hits, IsHits(hits), NEW counts, AreSingles(counts, hits), NEW n \in Nat \ {0}
  PROVE  /\ HitsOf(Capped(hits), MostCommon(hits, n)) \in Nat
         /\ HitsOf(Capped(hits), Kept(counts, n)) >= HitsOf(Capped(hits), MostCommon(hits, n))
<1> DEFINE w == Capped(hits)
           A == MostCommon(hits, n)
<1>1. Exact \in Nat
  BY SingleAssumption
<1>2. \A key \in Keys :
        /\ Counts(hits)[key] \in Nat
        /\ w[key] = IF Counts(hits)[key] <= Exact THEN Counts(hits)[key] ELSE Exact
  BY ONLY IsHits(hits), CappedIs
<1>3. w \in [Keys -> Nat]
  <2>1. w = [key \in Keys |-> w[key]]
    BY DEF Capped
  <2> HIDE DEF w
  <2> QED BY ONLY <1>1, <1>2, <2>1
<1>4. A \in SUBSET Keys /\ Cardinality(A) <= n
  BY MostCommonAreFew DEF IsHits
<1> HIDE DEF w, A
<1>5. \A a, b \in Keys : counts[a] >= counts[b] => w[a] >= w[b]
  <2>1. \A key \in Keys : counts[key] \in Nat /\ Agrees(counts[key], Counts(hits)[key])
    BY ONLY AreSingles(counts, hits) DEF AreSingles
  <2> QED BY ONLY <1>1, <1>2, <2>1 DEF Agrees
<1>6. counts \in [Keys -> Nat] /\ n \in Nat
  BY ONLY n \in Nat \ {0}, AreSingles(counts, hits) DEF AreSingles
<1>7. HitsOf(w, A) \in Nat /\ HitsOf(w, Kept(counts, n)) >= HitsOf(w, A)
  BY ONLY <1>3, <1>4, <1>5, <1>6, KeptAreWorthMost
<1> QED BY ONLY <1>7 DEF w, A

\* Budgets that may be asked for.
AreBudgets(bs) == bs \subseteq Nat \ {0} /\ IsFiniteSet(bs)

\* If all hits count, what is kept covers at least what is expected.
LEMMA ExpectedIsCovered ==
  ASSUME NEW hits, IsHits(hits), NEW bs, AreBudgets(bs), NEW name,
         NEW counts, AreSingles(counts, hits), \A key \in DOMAIN hits : hits[key] <= Exact
  PROVE  HitsOf(Counts(hits), Kept(counts, PlanBudgets(hits, bs)[name])) >=
           Expected(hits, bs, name)
<1> DEFINE b == PlanBudgets(hits, bs)[name]
           K == Kept(counts, b)
           A == MostCommon(hits, b)
           c == Counts(hits)
           D == DOMAIN hits
<1>1. c \in [Keys -> Nat] /\ K \in SUBSET Keys
  BY DEF IsHits, Counts, Kept
<1>2. Expected(hits, bs, name) = IF b \in bs THEN HotsetCoverage(hits, bs)[b] ELSE 0
  BY DEF Expected
<1>3. Capped(hits) = c
  <2>1. \A key \in Keys : c[key] \in Nat /\ c[key] <= Exact
    BY SingleAssumption DEF Counts, IsHits
  <2>2. \A key \in Keys : Capped(hits)[key] = c[key]
    BY <2>1, CappedIs
  <2>3. Capped(hits) = [key \in Keys |-> Capped(hits)[key]]
    BY DEF Capped
  <2> QED BY ONLY <1>1, <2>2, <2>3
<1>4. /\ D \in SUBSET Keys /\ IsFiniteSet(D) /\ A \in SUBSET D
      /\ \A key \in D : hits[key] = c[key]
  BY DEF IsHits, MostCommon, Counts
<1>5. CoveredHits(hits, b) = HitsOf(hits, A)
  BY DEF CoveredHits
<1> HIDE DEF b, K, A, c, D
<1>6. HitsOf(c, K) \in Nat
  BY ONLY <1>1, KeysAreFinite, TotalType, SumOnSetDef DEF HitsOf
<1>7. CASE b \notin bs
  BY ONLY <1>2, <1>6, <1>7 DEF K, b, c
<1>8. CASE b \in bs
  <2>1. b \in Nat \ {0}
    BY ONLY <1>8, AreBudgets(bs) DEF AreBudgets
  <2>2. Max({1, b}) = b
    <3>1. {1, b} \in SUBSET Nat /\ {1, b} # {} /\ IsFiniteSet({1, b})
      <4>1. IsFiniteSet({1}) /\ IsFiniteSet({b})
        BY FS_Singleton
      <4>2. IsFiniteSet({1} \union {b})
        BY ONLY <4>1, FS_Union
      <4>3. {1} \union {b} = {1, b}
        OBVIOUS
      <4> QED BY ONLY <2>1, <4>2, <4>3
    <3>2. Max({1, b}) \in {1, b} /\ \A x \in {1, b} : Max({1, b}) >= x
      BY ONLY <3>1, GreatestIs
    <3> QED BY ONLY <2>1, <3>2
  <2>3. HotsetCoverage(hits, bs)[b] = HitsOf(hits, A)
    BY ONLY <1>5, <1>8, <2>2 DEF HotsetCoverage
  <2>4. HitsOf(hits, A) = HitsOf(c, A)
    <3>1. IsFiniteSet(A)
      BY ONLY <1>4, FS_Subset
    <3>2. \A key \in A : hits[key] = c[key]
      BY ONLY <1>4
    <3>3. Totals(hits, A) = Totals(c, A)
      BY ONLY <3>1, <3>2, TotalAgrees
    <3> QED BY ONLY <3>3, SumOnSetDef DEF HitsOf
  <2>5. HitsOf(c, K) >= HitsOf(c, A)
    BY ONLY <1>3, <2>1, IsHits(hits), AreSingles(counts, hits), MostCommonIsKept DEF K, A
  <2> QED BY ONLY <1>2, <1>8, <2>3, <2>4, <2>5 DEF K, b, c
<1> QED BY <1>7, <1>8

\* What is enough for a higher threshold is enough for a lower one.
LEMMA PressureKeepsFewer ==
  ASSUME NEW hits, IsHits(hits), NEW bs, AreBudgets(bs)
  PROVE  /\ PlanBudgets(hits, bs).balanced_mode <= PlanBudgets(hits, bs).speed_mode
         /\ PlanBudgets(hits, bs).safe_mode \in Nat
<1> DEFINE cover(b) == HotsetCoverage(hits, bs)[b]
           all == AllHits(hits)
           enough(p) == {b \in bs : all > 0 /\ 100 * cover(b) >= p * all}
           best == IF bs = {} THEN 1 ELSE Max(bs)
           speed == SpeedBudget(hits, bs)
<1>1. all \in Nat
  BY HitsAreNumbers DEF AllHits
<1>2. ASSUME NEW b \in bs PROVE cover(b) \in Nat
  BY <1>2, HitsAreNumbers DEF HotsetCoverage, CoveredHits, MostCommon
<1>3. FirstBudget(hits, bs, 70) = IF enough(70) = {} THEN 0 ELSE Min(enough(70))
  BY DEF FirstBudget
<1>4. FirstBudget(hits, bs, 80) = IF enough(80) = {} THEN 0 ELSE Min(enough(80))
  BY DEF FirstBudget
<1>5. PlanBudgets(hits, bs) =
        [speed_mode |-> speed,
         memory_mode |-> IF bs = {} THEN 1 ELSE Min(bs),
         balanced_mode |-> Or(FirstBudget(hits, bs, 70), speed),
         safe_mode |-> Min({speed, best})]
  BY DEF PlanBudgets
<1>6. speed = Or(FirstBudget(hits, bs, 80), best)
  BY DEF SpeedBudget
<1>7. enough(80) \subseteq enough(70) /\ enough(70) \in SUBSET bs
  <2> HIDE DEF all, cover
  <2> QED BY ONLY <1>1, <1>2
<1>8. bs \in SUBSET (Nat \ {0}) /\ IsFiniteSet(bs)
  BY DEF AreBudgets
<1>9. best \in Nat \ {0} /\ \A b \in bs : b <= best
  <2>1. CASE bs = {}
    BY <2>1
  <2>2. CASE bs # {}
    <3>1. Max(bs) \in bs /\ \A x \in bs : Max(bs) >= x
      BY ONLY <1>8, <2>2, GreatestIs
    <3> QED BY ONLY <1>8, <2>2, <3>1
  <2> QED BY <2>1, <2>2
<1> DEFINE low == enough(70)
           high == enough(80)
<1> HIDE DEF low, high, best, speed
<1>10. ASSUME NEW S, S \subseteq bs, S # {}
       PROVE  Min(S) \in S /\ Min(S) \in Nat \ {0} /\ \A x \in S : Min(S) <= x
  <2>1. S \in SUBSET Nat
    BY ONLY <1>8, <1>10
  <2>2. Min(S) \in S /\ \A x \in S : Min(S) <= x
    BY ONLY <2>1, <1>10, LeastIs
  <2> QED BY ONLY <1>8, <1>10, <2>2
<1>11. /\ speed = IF high = {} THEN best ELSE Min(high)
       /\ speed \in Nat \ {0}
  <2>1. high \subseteq bs
    BY ONLY <1>7 DEF low, high
  <2>2. FirstBudget(hits, bs, 80) = IF high = {} THEN 0 ELSE Min(high)
    BY ONLY <1>4 DEF high
  <2>3. high # {} => Min(high) \in Nat \ {0}
    BY ONLY <1>10, <2>1
  <2> QED BY ONLY <1>6, <1>9, <2>2, <2>3 DEF Or
<1>12. Or(FirstBudget(hits, bs, 70), speed) <= speed
  <2>1. high \subseteq low /\ low \subseteq bs
    BY ONLY <1>7 DEF low, high
  <2>2. FirstBudget(hits, bs, 70) = IF low = {} THEN 0 ELSE Min(low)
    BY ONLY <1>3 DEF low
  <2>3. CASE low = {}
    BY ONLY <1>11, <2>2, <2>3 DEF Or
  <2>4. CASE low # {}
    <3>1. Min(low) \in low /\ Min(low) \in Nat \ {0} /\ \A x \in low : Min(low) <= x
      BY ONLY <1>10, <2>1, <2>4
    <3>2. high # {} => Min(high) \in high
      BY ONLY <1>10, <2>1
    <3>3. Min(low) <= speed
      BY ONLY <1>9, <1>11, <2>1, <3>1, <3>2
    <3> QED BY ONLY <2>2, <2>4, <3>1, <3>3 DEF Or
  <2> QED BY <2>3, <2>4
<1>13. Min({speed, best}) \in Nat
  <2>1. {speed, best} \in SUBSET Nat /\ {speed, best} # {}
    BY ONLY <1>9, <1>11
  <2> QED BY ONLY <2>1, LeastIs
<1> QED BY ONLY <1>5, <1>12, <1>13

LEMMA DeployedType ==
  ASSUME NEW hits, IsHits(hits), NEW bs, AreBudgets(bs)
  PROVE  LET deployed == PlanBudgets(hits, bs)
         IN  \A name \in DOMAIN deployed : deployed[name] \in Nat \ {0}
<1> DEFINE Numbers == Nat \ {0}
           deployed == PlanBudgets(hits, bs)
           enough(p) == {b \in bs : AllHits(hits) > 0
                           /\ 100 * HotsetCoverage(hits, bs)[b] >= p * AllHits(hits)}
<1>1. bs \in SUBSET Numbers /\ bs \in SUBSET Nat /\ IsFiniteSet(bs)
  BY DEF AreBudgets
<1>2. ASSUME NEW S, S \in SUBSET Numbers, S # {} PROVE Min(S) \in Numbers
  <2>1. S \in SUBSET Nat
    BY ONLY <1>2
  <2>2. Min(S) \in S
    BY ONLY <1>2, <2>1, LeastIs
  <2> QED BY ONLY <1>2, <2>2
<1>3. bs # {} => Max(bs) \in Numbers
  <2>1. bs # {} => Max(bs) \in bs
    BY ONLY <1>1, GreatestIs
  <2> QED BY ONLY <1>1, <2>1
<1>4. ASSUME NEW p, NEW other \in Numbers PROVE Or(FirstBudget(hits, bs, p), other) \in Numbers
  <2>1. FirstBudget(hits, bs, p) = IF enough(p) = {} THEN 0 ELSE Min(enough(p))
    BY DEF FirstBudget
  <2>2. enough(p) \in SUBSET Numbers
    BY <1>1
  <2> HIDE DEF enough
  <2>3. enough(p) # {} => Min(enough(p)) \in Numbers
    BY ONLY <1>2, <2>2
  <2> QED BY ONLY <2>1, <2>3, other \in Numbers DEF Or
<1> DEFINE best == IF bs = {} THEN 1 ELSE Max(bs)
           least == IF bs = {} THEN 1 ELSE Min(bs)
           speed == SpeedBudget(hits, bs)
<1>5. best \in Numbers /\ least \in Numbers
  <2>1. bs # {} => Min(bs) \in Numbers
    BY ONLY <1>1, <1>2
  <2>2. 1 \in Numbers
    OBVIOUS
  <2> HIDE DEF Numbers
  <2> QED BY ONLY <1>3, <2>1, <2>2
<1>6. speed = Or(FirstBudget(hits, bs, 80), best)
  BY DEF SpeedBudget
<1>7. deployed = [speed_mode |-> speed, memory_mode |-> least,
                  balanced_mode |-> Or(FirstBudget(hits, bs, 70), speed),
                  safe_mode |-> Min({speed, best})]
  BY DEF PlanBudgets
<1> HIDE DEF Numbers, best, least, speed
<1>8. speed \in Numbers
  BY ONLY <1>4, <1>5, <1>6
<1>9. Or(FirstBudget(hits, bs, 70), speed) \in Numbers
  BY ONLY <1>4, <1>8
<1>10. Min({speed, best}) \in Numbers
  <2>1. {speed, best} \in SUBSET Numbers /\ {speed, best} # {}
    BY ONLY <1>5, <1>8
  <2> QED BY ONLY <1>2, <2>1
<1>11. \A name \in DOMAIN deployed : deployed[name] \in Numbers
  BY ONLY <1>5, <1>7, <1>8, <1>9, <1>10
<1> QED BY ONLY <1>11 DEF Numbers

\* For every profile, every set of budgets and every order of the additions,
\* the plans cover what they expect of the hits that are counted exactly, and
\* memory pressure never chooses a larger one.
THEOREM PlansCover == TuningSpec => []PlansCoverWhatTheyExpect
<1>1. ASSUME TermsInv PROVE PlansCoverWhatTheyExpect
  <2> DEFINE hits == Hits(profile.rows)
             deployed == PlanBudgets(hits, budgets)
             ranked == Ranked
             capped == Capped(hits)
             chosen(locality, pressure) == RuntimePlan(locality, TRUE, pressure)
  <2> SUFFICES ASSUME Summed
               PROVE  /\ \A name \in DOMAIN deployed :
                           LET n == deployed[name]
                               kept == Kept(ranked, n)
                           IN  /\ (\A key \in DOMAIN hits : hits[key] <= Exact)
                                    => HitsOf(Counts(hits), kept) >=
                                         Expected(hits, budgets, name)
                               /\ HitsOf(capped, kept) >= HitsOf(capped, MostCommon(hits, n))
                      /\ \A locality \in BOOLEAN :
                           deployed[chosen(locality, TRUE)] <=
                             deployed[chosen(locality, FALSE)]
    BY DEF PlansCoverWhatTheyExpect
  <2>1. IsHits(hits)
    BY <1>1, CountsType DEF TermsInv
  <2>2. AreBudgets(budgets)
    BY <1>1, ProfileAssumption, FS_EmptySet DEF AreBudgets, TermsInv
  <2>3. AreSingles(ranked, hits)
    BY <1>1, RankedAreSingles
  <2> HIDE DEF hits, ranked
  <2>4. \A name \in DOMAIN deployed : deployed[name] \in Nat \ {0}
    BY ONLY <2>1, <2>2, DeployedType
  <2>5. ASSUME NEW name \in DOMAIN deployed
        PROVE  /\ (\A key \in DOMAIN hits : hits[key] <= Exact)
                    => HitsOf(Counts(hits), Kept(ranked, deployed[name])) >=
                         Expected(hits, budgets, name)
               /\ HitsOf(capped, Kept(ranked, deployed[name])) >=
                    HitsOf(capped, MostCommon(hits, deployed[name]))
    <3>1. ASSUME \A key \in DOMAIN hits : hits[key] <= Exact
          PROVE  HitsOf(Counts(hits), Kept(ranked, deployed[name])) >=
                   Expected(hits, budgets, name)
      BY ONLY <2>1, <2>2, <2>3, <3>1, ExpectedIsCovered
    <3> DEFINE n == deployed[name]
    <3>2. n \in Nat \ {0}
      BY ONLY <2>4, <2>5
    <3> HIDE DEF n
    <3>3. HitsOf(capped, Kept(ranked, n)) >= HitsOf(capped, MostCommon(hits, n))
      BY ONLY <2>1, <2>3, <3>2, MostCommonIsKept
    <3> QED BY ONLY <3>1, <3>3 DEF n
  <2>6. /\ deployed.balanced_mode <= deployed.speed_mode
        /\ deployed.safe_mode \in Nat
    BY ONLY <2>1, <2>2, PressureKeepsFewer
  <2> HIDE DEF deployed
  <2>7. \A locality \in BOOLEAN :
          deployed[chosen(locality, TRUE)] <= deployed[chosen(locality, FALSE)]
    BY ONLY <2>6 DEF RuntimePlan
  <2> QED BY ONLY <2>5, <2>7
<1> QED BY <1>1, TermsAreKept, PTL

=============================================================================
