---------------------------- MODULE AdmissionGate ----------------------------
(***************************************************************************)
(* The decision of admit_tilepo (src/tilepo/admission/scheduler.py) as a   *)
(* function of the rows it is given: which budgets TilePO is admitted for, *)
(* which plan every workload gets, and whether the gate passes.            *)
(*                                                                         *)
(* A row is a record of its workload, expert budget, system ("B": KT, "C": *)
(* TilePO), placement policy, its flaw, and the metrics tok, p95, p99 and  *)
(* gpu; p50, RAM, start-up time and fallbacks are reported but decide      *)
(* nothing.  Metrics are integers in units of which halves are never       *)
(* needed: a median is kept as twice its value.                            *)
(***************************************************************************)
EXTENDS Integers, Sequences, FiniteSets

CONSTANTS
  Workloads,    \* the workloads admission is asked about
  Experts,      \* the expert budgets, a sequence without repetition
  Repeats,      \* rows wanted of each system
  WinPercent,   \* tok_win_threshold, in percent
  Policy,       \* what selection optimises
  RequireBf16,  \* whether low-bit rows are rejected
  Missing       \* a metric a row does not have

ASSUME RequestAssumption ==
  /\ Workloads # {}
  /\ Experts \in Seq({Experts[i] : i \in DOMAIN Experts}) /\ Experts # <<>>
  /\ Repeats \in Nat \ {0} /\ WinPercent \in Nat
  /\ Policy \in {"throughput", "tail_latency", "memory_saving", "balanced"}
  /\ RequireBf16 \in BOOLEAN

Metrics == {"tok", "p95", "p99", "gpu"}

-----------------------------------------------------------------------------
\* _group_rows: the indexes of the rows of one cell; their order is that of
\* the manifests.  The placement policy and the number of the repeat are not
\* part of the key.
Cell(rows, w, e, system) ==
  {i \in DOMAIN rows :
     rows[i].workload = w /\ rows[i].expert = e /\ rows[i].system = system}

FirstRepeats(cell) ==
  {i \in cell : Cardinality({j \in cell : j <= i}) <= Repeats}

Recorded(rows, cell, metric) ==
  [i \in {j \in cell : rows[j][metric] # Missing} |-> rows[i][metric]]

KthSmallest(f, k) ==
  CHOOSE v \in {f[i] : i \in DOMAIN f} :
    /\ Cardinality({i \in DOMAIN f : f[i] < v}) < k
    /\ Cardinality({i \in DOMAIN f : f[i] <= v}) >= k

\* statistics.median over the values there are.
TwiceMedian(f) ==
  LET n == Cardinality(DOMAIN f)
  IN  IF n = 0 THEN Missing
      ELSE KthSmallest(f, (n + 1) \div 2) + KthSmallest(f, (n \div 2) + 1)

Aggregate(rows, cell) == [m \in Metrics |-> TwiceMedian(Recorded(rows, cell, m))]

NotSlower(b, c, tail) ==
  b[tail] # Missing /\ c[tail] # Missing /\ c[tail] <= b[tail]

Faster(b, c) ==
  /\ b.tok # Missing /\ c.tok # Missing
  /\ 100 * c.tok >= b.tok * (100 + WinPercent)

\* Mutant: p99 is forgotten.
StrictWinWithoutP99(b, c) == Faster(b, c) /\ NotSlower(b, c, "p95")

\* _strict_win.
StrictWin(b, c) ==
  Faster(b, c) /\ NotSlower(b, c, "p95") /\ NotSlower(b, c, "p99")

-----------------------------------------------------------------------------
\* _per_budget_decisions: the budgets with enough rows of both systems, as
\* indexes into Experts, and what was measured there.
Measured(rows, w, i, system) ==
  Aggregate(rows, FirstRepeats(Cell(rows, w, Experts[i], system)))

Complete(rows, w) ==
  {i \in DOMAIN Experts :
     \A system \in {"B", "C"} : Cardinality(Cell(rows, w, Experts[i], system)) >= Repeats}

Admitted(rows, w) ==
  {i \in Complete(rows, w) :
     StrictWin(Measured(rows, w, i, "B"), Measured(rows, w, i, "C"))}

OrElse(value, default) == IF value = Missing THEN default ELSE value

\* _score: in hundredths of the code's, and twice as large, as the medians are.
Score(metrics) ==
  LET tok == OrElse(metrics.tok, 0)
      p95 == OrElse(metrics.p95, 2000000)
      gpu == OrElse(metrics.gpu, 2000000)
  IN  CASE Policy = "tail_latency" -> -100 * p95
        [] Policy = "memory_saving" -> -100 * gpu
        [] Policy = "balanced" -> 100 * tok - p95 - 10 * gpu
        [] Policy = "throughput" -> 100 * tok

\* max: of several with the highest score, the first.
Best(indexes, rows, w, system) ==
  LET score[i \in indexes] == Score(Measured(rows, w, i, system))
  IN  CHOOSE i \in indexes :
        \A j \in indexes : score[i] > score[j] \/ (score[i] = score[j] /\ i <= j)

Choice(indexes, rows, w, system, name) ==
  LET i == Best(indexes, rows, w, system)
  IN  [system |-> name, budget |-> Experts[i], fallback |-> Experts[i],
       tok |-> Measured(rows, w, i, system).tok]

\* _select_workload_plans: KT's best budget only if TilePO has none at all.
Selection(rows, w) ==
  IF Admitted(rows, w) # {}
  THEN Choice(Admitted(rows, w), rows, w, "C", "TilePO")
  ELSE Choice(Complete(rows, w), rows, w, "B", "KT")

Selections(rows) ==
  [w \in {v \in Workloads : Complete(rows, v) # {}} |-> Selection(rows, w)]

\* _validate_rows looks at every row, also at those nobody asked about.
Disqualifying == {"simulated", "failed"} \union (IF RequireBf16 THEN {"lowbit"} ELSE {})
Flawed(rows) == \E i \in DOMAIN rows : rows[i].flaw \in Disqualifying

Gate(rows) ==
  IF Flawed(rows) \/ \E w \in Workloads : Complete(rows, w) = {} THEN "FAIL" ELSE "PASS"

Summary(rows) ==
  [gate |-> Gate(rows), selections |-> Selections(rows), rows |-> rows]

=============================================================================
