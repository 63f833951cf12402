------------------------------ MODULE Evidence ------------------------------
(***************************************************************************)
(* From sweep manifests to a release claim: manifests are merged           *)
(* (src/tilepo/ablation.py), a report groups their rows and judges whether *)
(* they cover a request (src/tilepo/reporting/ablation.py), `tilemem       *)
(* evidence verify` asks it for the release grid and looks further         *)
(* (src/tools/tilemem), and the SDK answers the headline gain from the     *)
(* summary the last report has left (src/tilemem/sdk.py).                  *)
(*                                                                         *)
(* A row is its group (workload, experts, policy, async, system) with its  *)
(* flaw; its values are left out:                                          *)
(*   "label"     the number of its repeat is missing                       *)
(*   "metric"    a metric is missing                                       *)
(*   "unreal"    it is simulated, or its run did not succeed               *)
(*   "requests"  it was measured with another number of requests           *)
(*   "lowbit"    it counts other dtypes than bf16                          *)
(***************************************************************************)
EXTENDS Integers, SequencesExt

CONSTANTS
  Sweeps,          \* manifests of sweeps
  SweepManifests,  \* what sweeps write: sequences of rows with expected_result_rows
  MergeLists,      \* lists of manifests that are merged
  Requests,        \* what reports are asked for
  Release,         \* the request of evidence verify
  ReleaseRows,     \* RELEASE_EXPECTED_ROWS
  MaxSteps         \* bound: writes of sweeps, merges and reports

Kt == "kt_expert"
Flaws == {"none", "label", "metric", "unreal", "requests", "lowbit"}

GroupKey(w, e, policy, async, system) ==
  [workload |-> w, experts |-> e, policy |-> policy, async |-> async, system |-> system]

\* What sweeps measure.
SweptRows == UNION {ToSet(manifest.rows) : manifest \in SweepManifests}

ASSUME SweptAssumption ==
  /\ \A manifest \in SweepManifests : manifest.rows \in Seq(SweptRows)
  /\ \A row \in SweptRows : row.flaw \in Flaws
  /\ \A list \in MergeLists : list \in Seq(ToSet(list))

\* The release grid: KT without, every other policy with and without
\* asynchronous planning (RELEASE_EXPECTED_ROWS is 2 * 5 * (1 + 3 * 2) * 3).
ASSUME ReleaseAssumption ==
  /\ Release.real /\ Kt \in Release.policies /\ "off" \in Release.asyncs
  /\ \A field \in {"workloads", "experts", "policies", "asyncs"} :
       IsFiniteSet(Release[field])
  /\ Release.workloads # {} /\ Release.experts # {} /\ Release.policies # {Kt}
  /\ Release.repeats \in Nat \ {0}
  /\ ReleaseRows =
       Cardinality(Release.workloads) * Cardinality(Release.experts) * Release.repeats
       * (1 + Cardinality(Release.policies \ {Kt}) * Cardinality(Release.asyncs))

VARIABLES
  manifests, \* those that exist, by name
  report,    \* the summary on disk
  verdict,   \* of the last evidence verify, with the rows it saw
  headline,  \* the last answer of v0_1_headline_gain
  steps

evidenceVars == <<manifests, report, verdict, headline, steps>>

NoReport == [gate |-> "none"]
NoVerdict == [status |-> "none"]
NoHeadline == [answered |-> FALSE]

EvidenceInit ==
  /\ manifests = [name \in {} |-> <<>>]
  /\ report = NoReport /\ verdict = NoVerdict /\ headline = NoHeadline
  /\ steps = 0

Step == steps < MaxSteps /\ steps' = steps + 1

WithManifest(name, manifest) ==
  [n \in DOMAIN manifests \union {name} |-> IF n = name THEN manifest ELSE manifests[n]]

\* A sweep writes its manifest (module Sweep says how).
SweepWrites(name, manifest) ==
  /\ Step
  /\ manifests' = WithManifest(name, manifest)
  /\ UNCHANGED <<report, verdict, headline>>

\* write_merged_manifest: what does not exist is left out, and what is listed
\* twice is there twice.
Merge(list) ==
  LET there == {i \in DOMAIN list : list[i] \in DOMAIN manifests}
      rows(i) == IF i \in there THEN manifests[list[i]].rows ELSE <<>>
  IN  /\ Step
      /\ manifests' = WithManifest("merged",
           [rows |-> FlattenSeq([i \in DOMAIN list |-> rows(i)]),
            expected |-> MapThenSumSet(LAMBDA i : manifests[list[i]].expected, there)])
      /\ UNCHANGED <<report, verdict, headline>>

-----------------------------------------------------------------------------
\* _validate_row.
RowValid(row, real) == row.flaw \notin {"label", "metric"} /\ (real => row.flaw # "unreal")

Wanted(key, request) ==
  /\ key.workload \in request.workloads /\ key.experts \in request.experts
  /\ key.policy \in request.policies /\ key.async \in request.asyncs

\* The groups of the report, with the number of their rows.
Grouped(rows, request) ==
  [key \in {k \in {rows[i].key : i \in DOMAIN rows} : Wanted(k, request)} |->
     Cardinality({i \in DOMAIN rows : rows[i].key = key})]

RowsIn(groups, key) == IF key \in DOMAIN groups THEN groups[key] ELSE 0

\* Mutant: rows of any system count for a policy.
CoveredByAnySystem(groups, request) ==
  \A w \in request.workloads, e \in request.experts :
    \A policy \in request.policies, async \in request.asyncs :
      policy = Kt \/ \E system \in {"B", "C"} :
        RowsIn(groups, GroupKey(w, e, policy, async, system)) >= request.repeats

\* _coverage_failures: rows are counted, whatever the numbers of their repeats.
Covered(groups, request) ==
  \A w \in request.workloads, e \in request.experts :
    /\ Kt \in request.policies /\ "off" \in request.asyncs =>
         RowsIn(groups, GroupKey(w, e, Kt, "off", "B")) >= request.repeats
    /\ \A policy \in request.policies \ {Kt}, async \in request.asyncs :
         RowsIn(groups, GroupKey(w, e, policy, async, "C")) >= request.repeats

ReportPasses(rows, request) ==
  /\ \A i \in DOMAIN rows : RowValid(rows[i], request.real)
  /\ Covered(Grouped(rows, request), request)

\* A group with a row without a metric: the statistics raise, and nothing is
\* written.
Raises(rows, request) ==
  \E i \in DOMAIN rows : rows[i].flaw = "metric" /\ Wanted(rows[i].key, request)

\* The summary is written whether or not the gate passes.
WriteSummary(rows, request) ==
  report' = [gate |-> IF ReportPasses(rows, request) THEN "PASS" ELSE "FAIL",
              request |-> request, groups |-> Grouped(rows, request)]

\* generate_ablation_report, called by the report tool.
WriteReport(name, request) ==
  /\ Step /\ name \in DOMAIN manifests
  /\ ~Raises(manifests[name].rows, request)
  /\ WriteSummary(manifests[name].rows, request)
  /\ UNCHANGED <<manifests, verdict, headline>>

\* Without the manifest, or when the statistics raise, what lies there stays.
ReportRaises(name, request) ==
  /\ Step
  /\ name \in DOMAIN manifests => Raises(manifests[name].rows, request)
  /\ UNCHANGED <<manifests, report, verdict, headline>>

-----------------------------------------------------------------------------
ReleaseRow(row) == row.flaw \notin {"unreal", "requests", "lowbit"}

\* Mutant: the successful rows are not counted.
CountsMatchWithoutRows(manifest) ==
  /\ Len(manifest.rows) = ReleaseRows /\ manifest.expected = ReleaseRows
  /\ \A i \in DOMAIN manifest.rows : manifest.rows[i].flaw # "lowbit"

\* What _cmd_evidence_verify checks after the report has passed.
CountsMatch(manifest) ==
  /\ Len(manifest.rows) = ReleaseRows /\ manifest.expected = ReleaseRows
  /\ Cardinality({i \in DOMAIN manifest.rows : ReleaseRow(manifest.rows[i])}) = ReleaseRows
  /\ \A i \in DOMAIN manifest.rows : manifest.rows[i].flaw # "lowbit"

\* _cmd_evidence_verify: the report passes or raises first; then the counts
\* are compared.  The summary is not written again when they differ.
Verify(name) ==
  /\ Step /\ name \in DOMAIN manifests
  /\ ~Raises(manifests[name].rows, Release)
  /\ WriteSummary(manifests[name].rows, Release)
  /\ verdict' =
       [status |-> IF ReportPasses(manifests[name].rows, Release)
                      /\ CountsMatch(manifests[name]) THEN "PASS" ELSE "FAIL",
        rows |-> manifests[name].rows, summary |-> report']
  /\ UNCHANGED <<manifests, headline>>

\* A manifest that is not there is a failure; statistics that raise end the
\* tool without a verdict.
VerifyRaises(name) ==
  /\ Step
  /\ \/ name \notin DOMAIN manifests /\ verdict' = [status |-> "FAIL"]
     \/ /\ name \in DOMAIN manifests /\ Raises(manifests[name].rows, Release)
        /\ verdict' = NoVerdict
  /\ UNCHANGED <<manifests, report, headline>>

-----------------------------------------------------------------------------
CellOf(key) == <<key.workload, key.experts>>
Cells(groups) == {CellOf(k) : k \in DOMAIN groups}
KtGroups(groups, cell) == {k \in DOMAIN groups : k.policy = Kt /\ CellOf(k) = cell}

\* _load_v0_1_summary and _v0_1_gain_rows: whether there is an answer.
Answerable ==
  /\ report.gate = "PASS"
  /\ \A cell \in Cells(report.groups) : Cardinality(KtGroups(report.groups, cell)) = 1
  /\ \E k \in DOMAIN report.groups : k.policy # Kt

\* v0_1_headline_gain.  Whichever group has the best median leads: any group of
\* another policy may, of whatever system and however few rows.
Headline ==
  /\ Answerable
  /\ \E k \in DOMAIN report.groups :
       /\ k.policy # Kt
       /\ headline' = [answered |-> TRUE, best |-> k, of |-> report,
                       baseline |-> CHOOSE b \in KtGroups(report.groups, CellOf(k)) : TRUE]
  /\ UNCHANGED <<manifests, report, verdict, steps>>

HeadlineRaises ==
  /\ ~Answerable
  /\ headline' = NoHeadline
  /\ UNCHANGED <<manifests, report, verdict, steps>>

ManifestNames == Sweeps \union {"merged"}

EvidenceNext ==
  \/ \E name \in Sweeps, manifest \in SweepManifests : SweepWrites(name, manifest)
  \/ \E list \in MergeLists : Merge(list)
  \/ \E name \in ManifestNames, request \in Requests :
       WriteReport(name, request) \/ ReportRaises(name, request)
  \/ \E name \in ManifestNames : Verify(name) \/ VerifyRaises(name)
  \/ Headline \/ HeadlineRaises

EvidenceSpec == EvidenceInit /\ [][EvidenceNext]_evidenceVars

-----------------------------------------------------------------------------
ReleaseKeys ==
  {GroupKey(w, e, Kt, "off", "B") : w \in Release.workloads, e \in Release.experts}
  \union {GroupKey(w, e, policy, async, "C") :
            w \in Release.workloads, e \in Release.experts,
            policy \in Release.policies \ {Kt}, async \in Release.asyncs}

\* Evidence that passes `tilemem evidence verify` is the release grid and
\* nothing besides: as many rows as repeats in every group, though the report
\* asks for at least that many and the tool compares totals only; every row
\* real, of the release's number of requests and bf16, whichever sweeps were
\* merged, how often and in whatever order.  That the repeats of a group are
\* different measurements is checked nowhere.
VerifiedEvidenceIsExact ==
  verdict.status = "PASS" =>
    LET rows == verdict.rows
    IN  /\ \A i \in DOMAIN rows : rows[i].key \in ReleaseKeys /\ rows[i].flaw = "none"
        /\ \A key \in ReleaseKeys :
             Cardinality({i \in DOMAIN rows : rows[i].key = key}) = Release.repeats

\* The headline can be answered from evidence that passed the verification,
\* as long as no other report has replaced its summary, and it is the gain of
\* a TilePO run over a KT run.  Reports that only pass their own gate promise
\* neither: rows a sweep labels with its policy on system B are candidates.
VerifiedEvidenceHasHeadline ==
  /\ verdict.status = "PASS" /\ report = verdict.summary => Answerable
  /\ verdict.status = "PASS" /\ headline.answered /\ headline.of = verdict.summary =>
       headline.best.system = "C" /\ headline.baseline.system = "B"

=============================================================================
