----------------------------- MODULE TileRuntime -----------------------------
(***************************************************************************)
(* The Python tile runtime and its KT patch (src/tilepo/runtime,           *)
(* src/tilepo/kt_patch/patch.py).  The patch serves a MoE request from KT, *)
(* from the runtime, or from both, depending on its mode.  The runtime     *)
(* plans the hot tiles of a request, checks the gates, materialises what   *)
(* is missing and calls a backend.  KT and the backend may raise: the      *)
(* exception leaves `run` at that point, and what was counted and moved    *)
(* before stays.                                                           *)
(***************************************************************************)
EXTENDS Integers, Sequences, SequencesExt, FiniteSetsExt

CONSTANTS
  Tiles,            \* tiles of the manifest
  HotTiles,         \* gpu_hot_tiles
  Experts,          \* (layer, expert) pairs of the model
  ExpertOf,         \* the pair a tile belongs to
  Bytes,            \* tile_bytes
  Priority,         \* backend_priority
  CalibrationGate,  \* "calibration" is one of the runtime_gates
  Topks,            \* routing decisions under study: sequences of Experts
  MaxRuns           \* bound on the requests and prefetches

ASSUME TileAssumption ==
  /\ IsFiniteSet(Tiles) /\ HotTiles \subseteq Tiles
  /\ ExpertOf \in [Tiles -> Experts]
  /\ Bytes \in [Tiles -> Nat]
ASSUME RequestAssumption ==
  /\ Topks \subseteq Seq(Experts)
  /\ CalibrationGate \in BOOLEAN /\ MaxRuns \in Nat

VARIABLES
  mode,        \* RuntimeMode of the patch
  async,       \* _async_planning_enabled
  installed,   \* backends given to the runtime
  planCache,   \* _plan_cache
  resident,    \* tiles whose TileState is GPU_RESIDENT; the others are cold
  planCounts,  \* async_plan_cache_hits and _misses
  tileCounts,  \* cache_hits, cache_misses, h2d_bytes
  outcomes,    \* fallback_count, tilemem_backend_launch_count, and the sum of
               \* dtype_counts
  patch,       \* metrics of the patch
  answers,     \* who answered the requests so far (history)
  unusable,    \* requests VERIFY compared with no usable output of KT (history)
  raised,      \* requests that ended in an exception, by its origin (history)
  runs         \* calls of run and prefetch_plan

inputVars == <<mode, async, installed>>
planVars == <<planCache, planCounts>>
tileVars == <<resident, tileCounts>>
vars == <<inputVars, planVars, tileVars, outcomes, patch, answers,
          unusable, raised, runs>>

Requests == [topk : Topks, forced : BOOLEAN, required : BOOLEAN,
             calibrated : BOOLEAN]

\* What KT returns as its output: nothing, values the first of which is NaN or
\* infinite, or others.
KtOutputs == {"absent", "broken", "usable"}

Init ==
  /\ mode \in {"shadow", "verify", "serve"}
  /\ async \in BOOLEAN
  /\ installed \in SUBSET ToSet(Priority)
  /\ planCache = <<>>
  /\ resident = {}
  /\ planCounts = [hits |-> 0, misses |-> 0]
  /\ tileCounts = [hits |-> 0, misses |-> 0, h2d |-> 0]
  /\ outcomes = [fallbacks |-> 0, launches |-> 0, dtypes |-> 0]
  /\ patch = [shadow |-> 0, pass |-> 0, fail |-> 0, serve |-> 0, kt |-> 0]
  /\ answers = [kt |-> 0, backend |-> 0]
  /\ unusable = 0
  /\ raised = [kt |-> 0, backend |-> 0]
  /\ runs = 0

-----------------------------------------------------------------------------
Lookup(r) ==
  IF r.topk = <<>> THEN HotTiles
  ELSE {t \in HotTiles : ExpertOf[t] \in ToSet(r.topk)}

\* Mutant: only the first expert is in the key.
KeyOfFirst(r) == IF r.topk = <<>> THEN <<>> ELSE <<Head(r.topk)>>

\* _plan_cache_key: the routing in its order, or "__hotset__".
Key(r) == r.topk

Cached(r) == async /\ Key(r) \in DOMAIN planCache

Planned(r) == IF Cached(r) THEN planCache[Key(r)] ELSE Lookup(r)

Remember(r) ==
  planCache' = [k \in DOMAIN planCache \union {Key(r)} |->
                  IF k = Key(r) THEN Lookup(r) ELSE planCache[k]]

\* The first part of execute: the plan is cached before the gates are checked.
PlanTiles(r) ==
  IF Cached(r)
  THEN /\ planCounts' = [planCounts EXCEPT !.hits = @ + 1]
       /\ UNCHANGED planCache
  ELSE IF async
  THEN /\ planCounts' = [planCounts EXCEPT !.misses = @ + 1]
       /\ Remember(r)
  ELSE UNCHANGED planVars

\* _check_gates.
GatesPass(r) ==
  /\ ~r.forced
  /\ r.required => Planned(r) # {}
  /\ CalibrationGate => r.calibrated

\* Mutant: the tiles of the plan are copied again whenever one is missing.
MaterializePlan(r) ==
  LET missing == IF Planned(r) \subseteq resident THEN {} ELSE Planned(r) IN
  /\ resident' = resident \union missing
  /\ tileCounts' = [tileCounts EXCEPT
       !.hits = @ + Cardinality(Planned(r) \ missing),
       !.misses = @ + Cardinality(missing),
       !.h2d = @ + MapThenSumSet(LAMBDA t : Bytes[t], missing)]

\* _materialize_missing walks a cold tile through CPU_RESIDENT, PINNED_READY
\* and GPU_PREFETCHING at once; nothing in the code ever evicts one.
Materialize(r) ==
  LET missing == Planned(r) \ resident IN
  /\ resident' = resident \union missing
  /\ tileCounts' = [tileCounts EXCEPT
       !.hits = @ + Cardinality(Planned(r) \ missing),
       !.misses = @ + Cardinality(missing),
       !.h2d = @ + MapThenSumSet(LAMBDA t : Bytes[t], missing)]

\* _select_backend: KT_FALLBACK is in the priority list, never a backend.
Usable == SelectSeq(Priority, LAMBDA b : b \in installed \ {"kt_fallback"})

-----------------------------------------------------------------------------
\* The four ways through TileMEMRuntime.execute.
GateFailed(r) ==
  /\ ~GatesPass(r)
  /\ PlanTiles(r)
  /\ outcomes' = [outcomes EXCEPT !.fallbacks = @ + 1]
  /\ UNCHANGED tileVars

BackendUnavailable(r) ==
  /\ GatesPass(r) /\ Usable = <<>>
  /\ PlanTiles(r)
  /\ Materialize(r)
  /\ outcomes' = [outcomes EXCEPT !.fallbacks = @ + 1]

BackendRaises(r) ==
  /\ GatesPass(r) /\ Usable # <<>>
  /\ PlanTiles(r)
  /\ Materialize(r)
  /\ UNCHANGED outcomes

Launch(r) ==
  /\ GatesPass(r) /\ Usable # <<>>
  /\ PlanTiles(r)
  /\ Materialize(r)
  /\ outcomes' = [outcomes EXCEPT !.launches = @ + 1,
                                  !.dtypes = @ + Cardinality(Planned(r))]

FellBack(r) == GateFailed(r) \/ BackendUnavailable(r)

runtimeVars == <<planVars, tileVars, outcomes>>

PrefetchPlan(r) ==
  /\ IF async THEN Remember(r) ELSE UNCHANGED planCache
  /\ UNCHANGED <<planCounts, tileVars, outcomes, patch, answers, unusable,
                 raised>>

-----------------------------------------------------------------------------
\* TileMEMKTPatch.run.  Who answered, or who raised.
Answer(who) ==
  /\ answers' = [answers EXCEPT ![who] = @ + 1]
  /\ UNCHANGED raised

Raise(who) ==
  /\ raised' = [raised EXCEPT ![who] = @ + 1]
  /\ UNCHANGED answers

KtRaisesFirst ==
  /\ mode \in {"shadow", "verify"}
  /\ Raise("kt")
  /\ UNCHANGED <<runtimeVars, patch, unusable>>

Shadow ==
  /\ mode = "shadow"
  /\ Answer("kt")
  /\ patch' = [patch EXCEPT !.shadow = @ + 1]
  /\ UNCHANGED <<runtimeVars, unusable>>

\* Mutant: a fallback passes without a comparison.
PassFallback(r, output) ==
  /\ mode = "verify"
  /\ FellBack(r)
  /\ patch' = [patch EXCEPT !.pass = @ + 1]
  /\ unusable' = unusable + IF output = "usable" THEN 0 ELSE 1
  /\ Answer("kt")

\* _max_abs_error is infinite when an output is missing.  Python's max keeps a
\* NaN it meets first and passes over the later ones, so the error is NaN when
\* KT's first value is, or is compared with an equal infinity, and no NaN is at
\* most the threshold; an infinity compared with anything else exceeds it.  The
\* threshold is a number that is not negative (1e-2 unless the caller asks).
Judge(output, agrees) ==
  /\ patch' = IF output = "usable" /\ agrees THEN [patch EXCEPT !.pass = @ + 1]
                                             ELSE [patch EXCEPT !.fail = @ + 1]
  /\ unusable' = unusable + IF output = "usable" THEN 0 ELSE 1

\* VERIFY: KT answers first, and its output is what a fallback returns, so a
\* request no backend ran on is compared with itself.
VerifyFallback(r, output) ==
  /\ mode = "verify"
  /\ FellBack(r)
  /\ Judge(output, TRUE)
  /\ Answer("kt")

VerifyLaunch(r, output, agrees) ==
  /\ mode = "verify"
  /\ Launch(r)
  /\ Judge(output, agrees)
  /\ Answer("kt")

\* SERVE: KT is called when the runtime falls back, and it may raise.
ServeFallback(r) ==
  /\ mode = "serve"
  /\ FellBack(r)
  /\ patch' = [patch EXCEPT !.kt = @ + 1]
  /\ Answer("kt") \/ Raise("kt")
  /\ UNCHANGED unusable

ServeLaunch(r) ==
  /\ mode = "serve"
  /\ Launch(r)
  /\ patch' = [patch EXCEPT !.serve = @ + 1]
  /\ Answer("backend")
  /\ UNCHANGED unusable

\* Nothing catches an exception of the backend: not KT's answer in VERIFY,
\* not a fallback in SERVE.
ExecuteRaises(r) ==
  /\ mode \in {"verify", "serve"}
  /\ BackendRaises(r)
  /\ Raise("backend")
  /\ UNCHANGED <<patch, unusable>>

Run(r) ==
  \/ KtRaisesFirst
  \/ Shadow
  \/ \E output \in KtOutputs : VerifyFallback(r, output)
  \/ \E output \in KtOutputs, agrees \in BOOLEAN : VerifyLaunch(r, output, agrees)
  \/ ServeFallback(r)
  \/ ServeLaunch(r)
  \/ ExecuteRaises(r)

Next ==
  /\ runs < MaxRuns
  /\ runs' = runs + 1
  /\ \E r \in Requests : Run(r) \/ PrefetchPlan(r)
  /\ UNCHANGED inputVars

Spec == Init /\ [][Next]_vars

-----------------------------------------------------------------------------
\* A plan taken from the cache is the plan a lookup would make: the key tells
\* apart every two requests whose hot tiles differ, whoever stored the plan (an
\* earlier request, one that failed its gates, or a prefetch).
CachedPlansAreCurrent ==
  \A r \in Requests : Key(r) \in DOMAIN planCache => planCache[Key(r)] = Lookup(r)

\* A tile is copied to the GPU once: h2d_bytes are the bytes of the resident
\* tiles and cache_misses their number, also after requests that fell back or
\* raised once the copy was made, and after plans served from the cache.
TilesMovedOnce ==
  /\ tileCounts.h2d = MapThenSumSet(LAMBDA t : Bytes[t], resident)
  /\ tileCounts.misses = Cardinality(resident)

\* Each request is answered once or raises. In SERVE, KT is called exactly for
\* the requests the runtime fell back on. In VERIFY every comparison is of a
\* launch or of a fallback. It fails whenever KT gave no usable output, also
\* where KT's output was compared with itself, and otherwise only for a launch:
\* the other requests no backend ran on pass, and raise the pass count the
\* sweep reads.
RequestsAccounted ==
  /\ mode = "serve" =>
       /\ patch.kt = outcomes.fallbacks
       /\ answers.kt + raised.kt = patch.kt
       /\ answers.backend = outcomes.launches
  /\ mode = "verify" =>
       /\ patch.pass + patch.fail = outcomes.launches + outcomes.fallbacks
       /\ answers.kt = patch.pass + patch.fail
       /\ unusable <= patch.fail /\ patch.fail <= outcomes.launches + unusable
  /\ mode = "shadow" => outcomes.fallbacks + outcomes.launches = 0

=============================================================================
