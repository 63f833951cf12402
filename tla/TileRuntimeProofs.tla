------------------------- MODULE TileRuntimeProofs --------------------------
(***************************************************************************)
(* The plan cache and the accounts of the tile runtime and its patch, for  *)
(* all tiles, routings, backends, gates and sequences of requests.         *)
(***************************************************************************)
EXTENDS TileRuntime, Collections, FiniteSetTheorems, TLAPS

\* The counters of runtime, patch and history.  dtype_counts grow by the size
\* of a plan, which nothing here looks at.
Types ==
  /\ mode \in {"shadow", "verify", "serve"}
  /\ DOMAIN outcomes = {"fallbacks", "launches", "dtypes"}
  /\ outcomes.fallbacks \in Nat /\ outcomes.launches \in Nat
  /\ patch \in [shadow : Nat, pass : Nat, fail : Nat, serve : Nat, kt : Nat]
  /\ answers \in [kt : Nat, backend : Nat]
  /\ raised \in [kt : Nat, backend : Nat]
  /\ unusable \in Nat

IInv == Types /\ RequestsAccounted

\* The hot tiles of a key of the plan cache.
PlanOf(key) ==
  IF key = <<>> THEN HotTiles ELSE {t \in HotTiles : ExpertOf[t] \in ToSet(key)}

\* Every plan of the cache, whatever request it was made for.
PlansAreCurrent == \A key \in DOMAIN planCache : planCache[key] = PlanOf(key)

-----------------------------------------------------------------------------
LEMMA RememberKeepsPlans ==
  ASSUME PlansAreCurrent, NEW r, Remember(r) PROVE PlansAreCurrent'
BY DEF PlansAreCurrent, Remember, PlanOf, Lookup, Key

LEMMA PlanTilesKeepsPlans ==
  ASSUME PlansAreCurrent, NEW r, PlanTiles(r) PROVE PlansAreCurrent'
<1>1. Remember(r) \/ planCache' = planCache
  BY DEF PlanTiles, planVars
<1> QED BY <1>1, RememberKeepsPlans DEF PlansAreCurrent

\* Whatever a request does, it plans its tiles or leaves the cache alone.
LEMMA RunPlans ==
  ASSUME NEW r, Run(r) PROVE PlanTiles(r) \/ planCache' = planCache
<1>1. CASE KtRaisesFirst \/ Shadow
  BY <1>1 DEF KtRaisesFirst, Shadow, runtimeVars, planVars
<1>2. CASE ~(KtRaisesFirst \/ Shadow)
  BY <1>2 DEF Run, VerifyFallback, VerifyLaunch, ServeFallback, ServeLaunch, ExecuteRaises,
              FellBack, GateFailed, BackendUnavailable, BackendRaises, Launch
<1> QED BY <1>1, <1>2

LEMMA PlansAreCurrentStep == PlansAreCurrent /\ [Next]_vars => PlansAreCurrent'
<1> SUFFICES ASSUME PlansAreCurrent, [Next]_vars PROVE PlansAreCurrent'
  OBVIOUS
<1>1. ASSUME NEW r \in Requests, Run(r) PROVE PlansAreCurrent'
  BY <1>1, RunPlans, PlanTilesKeepsPlans DEF PlansAreCurrent
<1>2. ASSUME NEW r \in Requests, PrefetchPlan(r) PROVE PlansAreCurrent'
  BY <1>2, RememberKeepsPlans DEF PrefetchPlan, PlansAreCurrent
<1>3. CASE UNCHANGED vars
  BY <1>3 DEF vars, planVars, PlansAreCurrent
<1> QED BY <1>1, <1>2, <1>3 DEF Next

\* A plan taken from the cache is the one a lookup would make, also in a cache
\* that requests which failed, raised or were only prefetched have filled.
THEOREM PlansStayCurrent == Spec => []CachedPlansAreCurrent
<1>1. Init => PlansAreCurrent
  BY DEF Init, PlansAreCurrent
<1>2. PlansAreCurrent => CachedPlansAreCurrent
  BY DEF PlansAreCurrent, CachedPlansAreCurrent, PlanOf, Lookup, Key
<1> QED BY <1>1, <1>2, PlansAreCurrentStep, PTL DEF Spec

-----------------------------------------------------------------------------
\* The runtime counts one fallback, one launch, or, when it raises, neither.
LEMMA FellBackCounts ==
  ASSUME Types, NEW r, FellBack(r)
  PROVE  /\ DOMAIN outcomes' = {"fallbacks", "launches", "dtypes"}
         /\ outcomes'.fallbacks = outcomes.fallbacks + 1
         /\ outcomes'.launches = outcomes.launches
<1>1. outcomes' = [outcomes EXCEPT !.fallbacks = @ + 1]
  BY DEF FellBack, GateFailed, BackendUnavailable
<1> QED BY <1>1 DEF Types

LEMMA LaunchCounts ==
  ASSUME Types, NEW r, Launch(r)
  PROVE  /\ DOMAIN outcomes' = {"fallbacks", "launches", "dtypes"}
         /\ outcomes'.fallbacks = outcomes.fallbacks
         /\ outcomes'.launches = outcomes.launches + 1
<1> DEFINE n == Cardinality(Planned(r))
<1>1. outcomes' = [outcomes EXCEPT !.launches = @ + 1, !.dtypes = @ + n]
  BY DEF Launch
<1> HIDE DEF n
<1> QED BY <1>1 DEF Types

\* An answer or an exception is counted once, for whom it comes from.
LEMMA AnswerCounts ==
  ASSUME Types, NEW who \in {"kt", "backend"}, Answer(who)
  PROVE  /\ raised' = raised
         /\ answers' \in [kt : Nat, backend : Nat]
         /\ answers'.kt = answers.kt + IF who = "kt" THEN 1 ELSE 0
         /\ answers'.backend = answers.backend + IF who = "backend" THEN 1 ELSE 0
BY DEF Types, Answer

LEMMA RaiseCounts ==
  ASSUME Types, NEW who \in {"kt", "backend"}, Raise(who)
  PROVE  /\ answers' = answers
         /\ raised' \in [kt : Nat, backend : Nat]
         /\ raised'.kt = raised.kt + IF who = "kt" THEN 1 ELSE 0
         /\ raised'.backend = raised.backend + IF who = "backend" THEN 1 ELSE 0
BY DEF Types, Raise

\* A comparison passes or fails. It fails without a usable output of KT, and
\* otherwise only where a backend disagrees.
LEMMA JudgeCounts ==
  ASSUME Types, NEW output \in KtOutputs, NEW agrees \in BOOLEAN, Judge(output, agrees)
  PROVE  /\ patch' \in [shadow : Nat, pass : Nat, fail : Nat, serve : Nat, kt : Nat]
         /\ unusable' \in Nat
         /\ patch'.pass + patch'.fail = patch.pass + patch.fail + 1
         /\ patch'.fail <= patch.fail + 1
         /\ unusable' >= unusable /\ unusable' - unusable <= patch'.fail - patch.fail
         /\ agrees = TRUE => patch'.fail - patch.fail = unusable' - unusable
<1>1. CASE output = "usable" /\ agrees
  BY <1>1 DEF Types, Judge
<1>2. CASE ~(output = "usable" /\ agrees)
  BY <1>2 DEF Types, Judge
<1> QED BY <1>1, <1>2

LEMMA RunIInv ==
  ASSUME IInv, NEW r, Run(r), mode' = mode PROVE IInv'
<1>0. Types /\ RequestsAccounted
  BY DEF IInv
<1>1. CASE KtRaisesFirst
  <2>1. outcomes' = outcomes /\ patch' = patch /\ unusable' = unusable /\ mode # "serve" /\ Raise("kt")
    BY <1>1 DEF KtRaisesFirst, runtimeVars
  <2> QED BY <1>0, <2>1, RaiseCounts DEF IInv, Types, RequestsAccounted
<1>2. CASE Shadow
  <2>1. outcomes' = outcomes /\ unusable' = unusable /\ mode = "shadow" /\ Answer("kt")
        /\ patch' = [patch EXCEPT !.shadow = @ + 1]
    BY <1>2 DEF Shadow, runtimeVars
  <2>2. patch' \in [shadow : Nat, pass : Nat, fail : Nat, serve : Nat, kt : Nat]
    BY <1>0, <2>1 DEF Types
  <2> QED BY <1>0, <2>1, <2>2, AnswerCounts DEF IInv, Types, RequestsAccounted
<1>3. ASSUME NEW output \in KtOutputs, VerifyFallback(r, output) PROVE IInv'
  <2>1. mode = "verify" /\ FellBack(r) /\ Judge(output, TRUE) /\ Answer("kt")
    BY <1>3 DEF VerifyFallback
  <2>2. /\ patch' \in [shadow : Nat, pass : Nat, fail : Nat, serve : Nat, kt : Nat]
        /\ unusable' \in Nat
        /\ patch'.pass + patch'.fail = patch.pass + patch.fail + 1
        /\ patch'.fail - patch.fail = unusable' - unusable
    <3>1. TRUE \in BOOLEAN
      OBVIOUS
    <3> QED BY <1>0, <2>1, <3>1, JudgeCounts, Zenon
  <2>3. Types'
    BY <1>0, <2>1, <2>2, FellBackCounts, AnswerCounts DEF Types
  <2>4. RequestsAccounted'
    BY <1>0, <2>1, <2>2, FellBackCounts, AnswerCounts DEF Types, RequestsAccounted
  <2> QED BY <2>3, <2>4 DEF IInv
<1>4. ASSUME NEW output \in KtOutputs, NEW agrees \in BOOLEAN,
             VerifyLaunch(r, output, agrees) PROVE IInv'
  <2>1. mode = "verify" /\ Launch(r) /\ Judge(output, agrees) /\ Answer("kt")
    BY <1>4 DEF VerifyLaunch
  <2>2. /\ patch' \in [shadow : Nat, pass : Nat, fail : Nat, serve : Nat, kt : Nat]
        /\ unusable' \in Nat
        /\ patch'.pass + patch'.fail = patch.pass + patch.fail + 1
        /\ patch'.fail <= patch.fail + 1
        /\ unusable' >= unusable /\ unusable' - unusable <= patch'.fail - patch.fail
    BY <1>0, <2>1, JudgeCounts, Zenon
  <2>3. /\ DOMAIN outcomes' = {"fallbacks", "launches", "dtypes"}
        /\ outcomes'.fallbacks = outcomes.fallbacks
        /\ outcomes'.launches = outcomes.launches + 1
    BY <1>0, <2>1, LaunchCounts
  <2>4. Types'
    BY <1>0, <2>1, <2>2, <2>3, AnswerCounts DEF Types
  <2>5. RequestsAccounted'
    BY <1>0, <2>1, <2>2, <2>3, AnswerCounts DEF Types, RequestsAccounted
  <2> QED BY <2>4, <2>5 DEF IInv
<1>5. CASE ServeFallback(r)
  <2>1. mode = "serve" /\ FellBack(r) /\ unusable' = unusable /\ (Answer("kt") \/ Raise("kt"))
        /\ patch' = [patch EXCEPT !.kt = @ + 1]
    BY <1>5 DEF ServeFallback
  <2>2. patch' \in [shadow : Nat, pass : Nat, fail : Nat, serve : Nat, kt : Nat]
        /\ patch'.kt = patch.kt + 1
    BY <1>0, <2>1 DEF Types
  <2> QED BY <1>0, <2>1, <2>2, FellBackCounts, AnswerCounts, RaiseCounts
          DEF IInv, Types, RequestsAccounted
<1>6. CASE ServeLaunch(r)
  <2>1. mode = "serve" /\ Launch(r) /\ unusable' = unusable /\ Answer("backend")
        /\ patch' = [patch EXCEPT !.serve = @ + 1]
    BY <1>6 DEF ServeLaunch
  <2>2. patch' \in [shadow : Nat, pass : Nat, fail : Nat, serve : Nat, kt : Nat]
        /\ patch'.kt = patch.kt
    BY <1>0, <2>1 DEF Types
  <2> QED BY <1>0, <2>1, <2>2, LaunchCounts, AnswerCounts DEF IInv, Types, RequestsAccounted
<1>7. CASE ExecuteRaises(r)
  <2>1. outcomes' = outcomes /\ patch' = patch /\ unusable' = unusable /\ Raise("backend")
    BY <1>7 DEF ExecuteRaises, BackendRaises
  <2> QED BY <1>0, <2>1, RaiseCounts DEF IInv, Types, RequestsAccounted
<1> QED BY <1>1, <1>2, <1>3, <1>4, <1>5, <1>6, <1>7 DEF Run

\* Every request is answered once or raises, KT is called in SERVE for exactly
\* the requests the runtime fell back on, and in VERIFY a fallback fails exactly
\* when KT's own output is missing or begins with a NaN or an infinity.
THEOREM EveryRequestAccounted == Spec => []RequestsAccounted
<1>1. Init => IInv
  BY DEF Init, IInv, Types, RequestsAccounted
<1>2. IInv /\ [Next]_vars => IInv'
  <2> SUFFICES ASSUME IInv, [Next]_vars PROVE IInv'
    OBVIOUS
  <2>1. ASSUME NEW r \in Requests, Run(r), mode' = mode PROVE IInv'
    BY <2>1, RunIInv
  <2>2. ASSUME NEW r \in Requests, PrefetchPlan(r), mode' = mode PROVE IInv'
    BY <2>2 DEF PrefetchPlan, IInv, Types, RequestsAccounted
  <2>3. CASE UNCHANGED vars
    BY <2>3 DEF vars, inputVars, IInv, Types, RequestsAccounted
  <2> QED BY <2>1, <2>2, <2>3 DEF Next, inputVars
<1> QED BY <1>1, <1>2, PTL DEF Spec, IInv

-----------------------------------------------------------------------------
(* What has been moved *)

BytesOf(tiles) == MapThenSumSet(LAMBDA t : Bytes[t], tiles)

MovedOnce ==
  tileCounts.h2d = BytesOf(resident) /\ tileCounts.misses = Cardinality(resident)

MoveInv ==
  /\ PlansAreCurrent /\ resident \subseteq HotTiles
  /\ DOMAIN tileCounts = {"hits", "misses", "h2d"}
  /\ MovedOnce

LEMMA BytesAreTotal ==
  ASSUME NEW tiles PROVE BytesOf(tiles) = Totals(Bytes, tiles)[tiles]
BY Zenon DEF BytesOf, MapThenSumSet, MapThenFoldSet, Totals, IsTotal, Pick, Rest

\* A request moves hot tiles only, whether its plan is cached or not.
LEMMA PlannedAreHot ==
  ASSUME PlansAreCurrent, NEW r PROVE Planned(r) \subseteq HotTiles
BY DEF PlansAreCurrent, Planned, Cached, PlanOf, Lookup

LEMMA MaterializeMovesOnce ==
  ASSUME MoveInv, NEW r, Materialize(r)
  PROVE  /\ resident' \subseteq HotTiles
         /\ DOMAIN tileCounts' = {"hits", "misses", "h2d"}
         /\ MovedOnce'
<1> DEFINE missing == Planned(r) \ resident
           hit == Cardinality(Planned(r) \ missing)
           size == BytesOf(missing)
<1>1. /\ resident' = resident \union missing
      /\ tileCounts' = [tileCounts EXCEPT !.hits = @ + hit, !.misses = @ + Cardinality(missing),
                                          !.h2d = @ + size]
  BY DEF Materialize, BytesOf
<1>2. missing \subseteq HotTiles /\ missing \intersect resident = {}
  BY PlannedAreHot DEF MoveInv
<1>3. /\ resident \in SUBSET Tiles /\ missing \in SUBSET Tiles
      /\ IsFiniteSet(resident) /\ IsFiniteSet(missing)
  <2>1. resident \in SUBSET Tiles /\ missing \in SUBSET Tiles
    BY <1>2, TileAssumption DEF MoveInv
  <2> QED BY <2>1, TileAssumption, FS_Subset
<1> HIDE DEF missing, hit, size
<1>4. Cardinality(resident \union missing) = Cardinality(resident) + Cardinality(missing)
  <2>1. resident \intersect missing = {}
    BY <1>2
  <2>2. Cardinality(resident \intersect missing) = 0
    BY <2>1, FS_EmptySet
  <2>3. Cardinality(resident) \in Nat /\ Cardinality(missing) \in Nat
    BY <1>3, FS_CardinalityType
  <2>4. Cardinality(resident \union missing)
          = Cardinality(resident) + Cardinality(missing) - Cardinality(resident \intersect missing)
    BY <1>3, FS_Union
  <2> QED BY <2>2, <2>3, <2>4
<1>5. BytesOf(resident \union missing) = BytesOf(resident) + size
  BY <1>2, <1>3, TotalOfUnion, BytesAreTotal, TileAssumption DEF size
<1>6. /\ tileCounts.h2d = BytesOf(resident) /\ tileCounts.misses = Cardinality(resident)
      /\ resident \subseteq HotTiles /\ DOMAIN tileCounts = {"hits", "misses", "h2d"}
  BY DEF MoveInv, MovedOnce
<1>7. /\ DOMAIN tileCounts' = {"hits", "misses", "h2d"}
      /\ tileCounts'.h2d = tileCounts.h2d + size
      /\ tileCounts'.misses = tileCounts.misses + Cardinality(missing)
  BY <1>1, <1>6
<1>8. tileCounts'.h2d = BytesOf(resident') /\ tileCounts'.misses = Cardinality(resident')
  BY <1>1, <1>4, <1>5, <1>6, <1>7
<1> QED BY <1>1, <1>2, <1>6, <1>7, <1>8 DEF MovedOnce

\* A request moves the tiles of its plan or none.
LEMMA RunMoves ==
  ASSUME NEW r, Run(r) PROVE Materialize(r) \/ UNCHANGED tileVars
<1>1. CASE KtRaisesFirst \/ Shadow
  BY <1>1 DEF KtRaisesFirst, Shadow, runtimeVars, tileVars
<1>2. CASE ~(KtRaisesFirst \/ Shadow)
  BY <1>2 DEF Run, VerifyFallback, VerifyLaunch, ServeFallback, ServeLaunch, ExecuteRaises,
              FellBack, GateFailed, BackendUnavailable, BackendRaises, Launch
<1> QED BY <1>1, <1>2

\* h2d_bytes are the bytes of the resident tiles and cache_misses their
\* number: no tile is copied twice, none is resident without having been
\* copied, also after requests that fell back or raised in between.
THEOREM TilesAreMovedOnce == Spec => []TilesMovedOnce
<1>1. Init => MoveInv
  <2>1. BytesOf({}) = 0 /\ Cardinality({}) = 0
    BY BytesAreTotal, TotalStep, FS_EmptySet
  <2> QED BY <2>1 DEF Init, MoveInv, PlansAreCurrent, MovedOnce
<1>2. MoveInv /\ [Next]_vars => MoveInv'
  <2> SUFFICES ASSUME MoveInv, [Next]_vars PROVE MoveInv'
    OBVIOUS
  <2>1. PlansAreCurrent'
    BY PlansAreCurrentStep DEF MoveInv
  <2>2. CASE UNCHANGED tileVars
    BY <2>1, <2>2 DEF MoveInv, MovedOnce, tileVars
  <2>3. ASSUME NEW r \in Requests, Run(r) PROVE MoveInv'
    BY <2>1, <2>2, <2>3, RunMoves, MaterializeMovesOnce DEF MoveInv
  <2>4. ASSUME NEW r \in Requests, PrefetchPlan(r) PROVE MoveInv'
    BY <2>2, <2>4 DEF PrefetchPlan
  <2>5. CASE UNCHANGED vars
    BY <2>2, <2>5 DEF vars
  <2> QED BY <2>3, <2>4, <2>5 DEF Next
<1>3. MoveInv => TilesMovedOnce
  BY Zenon DEF MoveInv, MovedOnce, TilesMovedOnce, BytesOf
<1> QED BY <1>1, <1>2, <1>3, PTL DEF Spec

=============================================================================
