----------------------------- MODULE TileHandles -----------------------------
(***************************************************************************)
(* The handles a caller gets for the tiles of a manifest, and the registry *)
(* of backends they are built with (src/tilepo/integration.py).  Handles   *)
(* are a copy: what is registered or cleared later does not reach them.    *)
(***************************************************************************)
EXTENDS TileManifest, FiniteSetsExt

CONSTANTS
  Capabilities,   \* the capabilities that are registered, under their names
  MaxCalls        \* bound: calls of the registry and of build_tile_handles

VARIABLES
  registry,   \* BackendRegistry._capabilities
  handles,    \* the answer of the last build_tile_handles, by id
  narrowed,   \* has a backend lost something since then
  calls

handleVars == <<registry, handles, narrowed, calls>>

HandlesInit ==
  /\ Init
  /\ registry = EmptyMap /\ handles = EmptyMap
  /\ narrowed = FALSE /\ calls = 0

Group(id) == id[3]
OrElse(map, id, default) == IF id \in DOMAIN map THEN map[id] ELSE default

KtFallback == "kt_fallback"
DefaultBackend(dtype) == IF dtype = "bf16" THEN KtFallback ELSE "external"

\* Mutant: the layout of the scales is not compared.
SupportsAnyLayout(capability, handle) ==
  /\ handle.format \in capability.formats
  /\ handle.group \in capability.groups

\* BackendCapability.supports_handle.  Scale granularities are not looked at.
Supports(capability, handle) ==
  /\ handle.format \in capability.formats
  /\ handle.layout \in capability.layouts
  /\ handle.group \in capability.groups

-----------------------------------------------------------------------------
\* The fields of a handle, each with its default.
Fields(id) ==
  LET dtype == OrElse(side.dtype, id, "bf16")
  IN  [group |-> Group(id), dtype |-> dtype,
       format |-> OrElse(side.format, id, dtype),
       weight |-> weights[id],
       scale |-> OrElse(scales, id, [at |-> -1, size |-> 0]),
       layout |-> OrElse(side.layout, id, "none"),
       backend |-> OrElse(side.backend, id, DefaultBackend(dtype)),
       fallback |-> OrElse(side.fallback, id, "bf16:kt_fallback")]

Dispatchable(fields) ==
  \/ fields.backend = KtFallback
  \/ /\ fields.backend \in DOMAIN registry
     /\ Supports(registry[fields.backend], fields)

\* build_tile_handles: one handle for each entry of the offset map.
BuildHandles ==
  /\ pc = "done"
  /\ handles' = [id \in DOMAIN weights |->
                   [fields |-> Fields(id), dispatchable |-> Dispatchable(Fields(id))]]
  /\ narrowed' = FALSE
  /\ UNCHANGED registry

Wider(new, old) ==
  /\ old.formats \subseteq new.formats
  /\ old.layouts \subseteq new.layouts
  /\ old.groups \subseteq new.groups

\* BackendRegistry.register: a name that is there already is replaced.
Register(capability) ==
  LET name == capability.name
  IN  /\ registry' = Put(registry, name, capability)
      /\ narrowed' = (narrowed \/ (name \in DOMAIN registry
                                   /\ ~Wider(capability, registry[name])))
      /\ UNCHANGED handles

\* BackendRegistry.clear.
Clear ==
  /\ registry' = EmptyMap
  /\ narrowed' = (narrowed \/ registry # EmptyMap)
  /\ UNCHANGED handles

HandlesStep ==
  /\ calls < MaxCalls
  /\ BuildHandles \/ Clear \/ \E capability \in Capabilities : Register(capability)
  /\ calls' = calls + 1
  /\ UNCHANGED vars

\* The manifest is built, and callers use registry and handles at any time.
HandlesNext == (Next /\ UNCHANGED handleVars) \/ HandlesStep

HandlesSpec == HandlesInit /\ [][HandlesNext]_<<vars, handleVars>>

-----------------------------------------------------------------------------
AllDistinct == \A i, j \in DOMAIN mir : mir[i].id = mir[j].id => i = j

\* A tile that is to be dispatched goes to KT, or to a backend that is
\* registered now and supports what the model, not the manifest, says of the
\* tile: its format, the layout of its scales and its projection group.  That
\* is so for models that list no id twice, as long as no backend has lost
\* something since the handles were built; later registrations do not reach
\* handles.
DispatchedTilesAreSupported ==
  ~narrowed /\ AllDistinct /\ handles # EmptyMap =>
    \A i \in DOMAIN mir :
      LET tile == mir[i]
          said == tile.dress
          format == IF said.format = NotGiven THEN said.dtype ELSE said.format
          layout == IF said.layout = NotGiven THEN "none" ELSE said.layout
          owner == IF said.backend = NotGiven THEN DefaultBackend(said.dtype)
                   ELSE said.backend
      IN  handles[tile.id].dispatchable =>
            \/ owner = KtFallback
            \/ /\ owner \in DOMAIN registry
               /\ format \in registry[owner].formats
               /\ layout \in registry[owner].layouts
               /\ Group(tile.id) \in registry[owner].groups

=============================================================================
