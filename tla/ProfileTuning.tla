---------------------------- MODULE ProfileTuning ----------------------------
(***************************************************************************)
(* What is kept on the GPU, chosen from a routing profile before serving:  *)
(* coverage of expert budgets (src/tilepo/profiling/profiler.py), the four *)
(* deployment plans and the choice among them (src/tilepo/autotune.py),    *)
(* and the ranking of experts that is exported for KT                      *)
(* (src/tilepo/kt_hotset.py).                                              *)
(*                                                                         *)
(* An expert is <<layer, number>>.  Coverage is kept as the hits that are  *)
(* covered, out of all hits, so that no quotient is rounded.  The entropy  *)
(* of a profile and the churn of its requests choose the dtype of one plan *)
(* only and are left out.                                                  *)
(*                                                                         *)
(* The profile counts with integers, the export with single precision      *)
(* numbers: the recorded counts are converted, and those of several slices *)
(* are added in an order that the tensor library chooses.                  *)
(***************************************************************************)
EXTENDS Integers, SequencesExt

CONSTANTS
  Layers, Experts,   \* EXPECTED_SHAPE: 16 layers of 64 experts
  Workload,          \* workload_label
  Profiles,          \* rows of a profile directory, and slices of logical_count
  BudgetSets,        \* what --expert-budgets may be
  Exact,             \* up to here every count is a single precision number: 2^24
  Spacings           \* of larger ones, to the next: 2^0 .. 2^104

Keys == (0 .. Layers - 1) \X (0 .. Experts - 1)

\* More experts or layers would change the precision of the scores.
ASSUME ShapeAssumption == Layers \in 1 .. 16 /\ Experts \in 1 .. 64

ASSUME SingleAssumption ==
  /\ Exact \in Nat \ {0} /\ Exact % 2 = 0
  /\ Spacings \subseteq Nat \ {0} /\ 1 \in Spacings
  /\ \A s \in Spacings \ {1} : \E half \in Spacings : s = 2 * half

VARIABLES
  profile, budgets,
  terms   \* of each expert, what remains to be added; nothing before the export

tuningVars == <<profile, budgets, terms>>

-----------------------------------------------------------------------------
\* The rows of the workload, and those that name none; all rows if there are
\* no such rows.
RowsOf(rows) ==
  LET own == {i \in DOMAIN rows : rows[i].workload \in {Workload, "unnamed"}}
  IN  IF own = {} THEN DOMAIN rows ELSE own

\* A row counts for every route of its trace, or for its own expert.
Routes(rows) == UNION {{i} \X DOMAIN rows[i].routes : i \in RowsOf(rows)}
RouteAt(rows, r) == rows[r[1]].routes[r[2]]

Hits(rows) ==
  LET routes == Routes(rows)
  IN  [key \in {RouteAt(rows, r).key : r \in routes} |->
         SumFunction([r \in {q \in routes : RouteAt(rows, q).key = key} |->
                        RouteAt(rows, r).count])]

HitsOf(hits, keys) == SumFunctionOnSet(hits, keys)
AllHits(hits) == HitsOf(hits, DOMAIN hits)

Earlier(a, b) == a[1] < b[1] \/ (a[1] = b[1] /\ a[2] < b[2])

\* More often hit; in which order equals come does not change their sum.
Hotter(hits, a, b) == hits[a] > hits[b] \/ (hits[a] = hits[b] /\ Earlier(a, b))

\* Counter.most_common: the budget counts experts of all layers together.
MostCommon(hits, budget) ==
  {key \in DOMAIN hits :
     Cardinality({k \in DOMAIN hits : Hotter(hits, k, key)}) < budget}

CoveredHits(hits, budget) == HitsOf(hits, MostCommon(hits, budget))

\* hotset_coverage; a budget below one is covered as one.
HotsetCoverage(hits, bs) ==
  [b \in bs |-> CoveredHits(hits, Max({1, b}))]

-----------------------------------------------------------------------------
\* Python's `or` for numbers: no budget and a budget of zero are the same.
Or(a, b) == IF a = 0 THEN b ELSE a

\* _first_budget_at_or_above, or zero.
FirstBudget(hits, bs, percent) ==
  LET all == AllHits(hits)
      coverage == HotsetCoverage(hits, bs)
      enough == {b \in bs : all > 0 /\ 100 * coverage[b] >= percent * all}
  IN  IF enough = {} THEN 0 ELSE Min(enough)

\* autotune_from_profile: experts per layer of the four plans.
SpeedBudget(hits, bs) ==
  Or(FirstBudget(hits, bs, 80), IF bs = {} THEN 1 ELSE Max(bs))

PlanBudgets(hits, bs) ==
  LET best == IF bs = {} THEN 1 ELSE Max(bs)
      speed == SpeedBudget(hits, bs)
  IN  [speed_mode |-> speed,
       memory_mode |-> IF bs = {} THEN 1 ELSE Min(bs),
       balanced_mode |-> Or(FirstBudget(hits, bs, 70), speed),
       safe_mode |-> Min({speed, best})]

\* expected_hotset_coverage, in hits.
Expected(hits, bs, name) ==
  LET b == PlanBudgets(hits, bs)[name]
  IN  IF b \in bs THEN HotsetCoverage(hits, bs)[b] ELSE 0

\* select_runtime_plan.
RuntimePlan(localityPass, correctnessPass, memoryPressure) ==
  IF ~correctnessPass THEN "kt_fallback"
  ELSE IF ~localityPass THEN "safe_mode"
  ELSE IF memoryPressure THEN "balanced_mode"
  ELSE "speed_mode"

-----------------------------------------------------------------------------
\* A single precision number has 24 bits; the nearest one, with an even last
\* bit if two are equally near.
Wide(n) == {s \in Spacings : n < Exact * s}
Finite(n) == Wide(n) # {}

Single(n) ==
  LET s == Min(Wide(n))
      q == n \div s
      r == n % s
      up == 2 * r > s \/ (2 * r = s /\ q % 2 = 1)
  IN  s * (q + IF up THEN 1 ELSE 0)

\* Hits of a profile, experts that it does not name included.
Counts(hits) == [key \in Keys |-> IF key \in DOMAIN hits THEN hits[key] ELSE 0]

\* Experts of the model, budgets of at least one; and the slices of
\* logical_count, which are recorded elsewhere, add up to the profile's hits.
ASSUME ProfileAssumption ==
  /\ \A p \in Profiles :
       /\ p.rows \in Seq(ToSet(p.rows))
       /\ \A i \in DOMAIN p.rows :
            /\ p.rows[i].routes \in Seq(ToSet(p.rows[i].routes))
            /\ \A j \in DOMAIN p.rows[i].routes :
                 p.rows[i].routes[j].key \in Keys /\ p.rows[i].routes[j].count \in Nat
       /\ p.logical \in Seq([Keys -> Nat])
       /\ \A key \in Keys :
            SumFunction([i \in DOMAIN p.logical |-> p.logical[i][key]]) =
              Counts(Hits(p.rows))[key]
  /\ \A bs \in BudgetSets : bs \subseteq Nat \ {0} /\ IsFiniteSet(bs)

-----------------------------------------------------------------------------
\* _rank_layer: the place of an expert in its layer, from zero.
Rank(counts, layer, expert) ==
  Cardinality({e \in 0 .. Experts - 1 :
                 Hotter(counts, <<layer, e>>, <<layer, expert>>)})

Band(rank) == CASE rank < 4 -> 3 [] rank >= 4 /\ rank < 8 -> 2
                [] rank >= 8 /\ rank < 16 -> 1 [] OTHER -> 0

\* Mutant: the bonus of a rank is no larger than that of an expert.
FaintBonus(rank, layer, expert) ==
  (Experts - rank) + (Layers - 1 - layer) * 100 + (Experts - 1 - expert)

\* The bonuses that _rank_banded_score adds to the band, in 10^-9.
Bonus(rank, layer, expert) ==
  (Experts - rank) * 100000 + (Layers - 1 - layer) * 100 + (Experts - 1 - expert)

\* Distance of neighbouring single precision numbers near the band, in 10^-9:
\* 2^-22 from two to four, 2^-23 from one to two, less than a unit below.
Ulp(band) == CASE band >= 2 -> 238 [] band = 1 -> 119 [] OTHER -> 1

\* A row of the exported tensor: the scores, as single precision numbers.
ExportedScores(counts, layer) ==
  LET score(rank, e) ==
        LET ulp == Ulp(Band(rank))
        IN  [band |-> Band(rank),
             bonus |-> ((Bonus(rank, layer, e) + ulp \div 2) \div ulp) * ulp]
  IN  [e \in 0 .. Experts - 1 |-> score(Rank(counts, layer, e), e)]

HigherScore(a, b) == a.band > b.band \/ (a.band = b.band /\ a.bonus > b.bonus)

\* The experts of a layer that are surely among the first n of its scores.
Top(scores, n) ==
  {e \in DOMAIN scores :
     Cardinality({f \in DOMAIN scores \ {e} : ~HigherScore(scores[e], scores[f])}) < n}

-----------------------------------------------------------------------------
NoTerms == [key \in Keys |-> <<>>]

TuningInit == profile \in Profiles /\ budgets = {} /\ terms = NoTerms

\* The tool is run again, with other budgets.
Retune == budgets' \in BudgetSets /\ UNCHANGED <<profile, terms>>

\* The counts become single precision numbers; an infinite one is refused.
Convert ==
  /\ terms = NoTerms
  /\ \A i \in DOMAIN profile.logical, key \in Keys :
       Finite(profile.logical[i][key]) /\ Finite(Single(profile.logical[i][key]))
  /\ terms' = [key \in Keys |->
                 [i \in DOMAIN profile.logical |-> Single(profile.logical[i][key])]]
  /\ UNCHANGED <<profile, budgets>>

\* The slices of an expert are added by twos, in any order.  No sum depends on
\* another expert's, so the experts take turns in the order of the tensor.
Add(key, i, j) ==
  LET t == terms[key]
      sum == t[i] + t[j]
  IN  /\ i \in DOMAIN t /\ j \in DOMAIN t /\ i < j
      /\ \A k \in Keys : Earlier(k, key) => Cardinality(DOMAIN terms[k]) = 1
      /\ Finite(sum) /\ Finite(Single(sum))
      /\ terms' = [terms EXCEPT ![key] =
                     [k \in DOMAIN t \ {j} |-> IF k = i THEN Single(sum) ELSE t[k]]]
      /\ UNCHANGED <<profile, budgets>>

TuningNext ==
  \/ Retune
  \/ Convert
  \/ \E key \in Keys : \E i, j \in DOMAIN terms[key] : Add(key, i, j)

TuningSpec == TuningInit /\ [][TuningNext]_tuningVars

\* Every sum is made, and the experts are ranked by them.
Summed == \A key \in Keys : Cardinality(DOMAIN terms[key]) = 1
Ranked == [key \in Keys |-> terms[key][CHOOSE i \in DOMAIN terms[key] : TRUE]]

\* What n experts of each layer, chosen by the exported scores, keep.
Kept(counts, n) ==
  LET top == [l \in 0 .. Layers - 1 |-> Top(ExportedScores(counts, l), n)]
  IN  {key \in Keys : key[2] \in top[key[1]]}

\* Hits, of which those beyond the exact ones do not count.
Capped(hits) == [key \in Keys |-> Min({Exact, Counts(hits)[key]})]

\* Let a plan keep its experts_per_layer of every layer, ranked by the exported
\* single precision scores of the single precision counts.  While no expert is
\* hit more often than such numbers are exact, the plan covers at least the
\* hits it expects: though the expectation was computed for that many experts
\* of all layers together, the slices are added in any order, and the bonuses
\* that order equal ranks are below the precision.  With more hits it may miss
\* some, but only those beyond the exact ones: counting no others, it covers
\* at least what the experts behind the expectation do.  And the plan that the
\* gates choose under memory pressure keeps no more experts than the one they
\* choose without.
PlansCoverWhatTheyExpect ==
  LET hits == Hits(profile.rows)
      deployed == PlanBudgets(hits, budgets)
      ranked == Ranked
      capped == Capped(hits)
      chosen(locality, pressure) == RuntimePlan(locality, TRUE, pressure)
  IN  Summed =>
        /\ \A name \in DOMAIN deployed :
             LET n == deployed[name]
                 kept == Kept(ranked, n)
             IN  /\ (\A key \in DOMAIN hits : hits[key] <= Exact)
                      => HitsOf(Counts(hits), kept) >= Expected(hits, budgets, name)
                 /\ HitsOf(capped, kept) >= HitsOf(capped, MostCommon(hits, n))
        /\ \A locality \in BOOLEAN :
             deployed[chosen(locality, TRUE)] <= deployed[chosen(locality, FALSE)]

=============================================================================
