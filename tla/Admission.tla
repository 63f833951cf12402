------------------------------ MODULE Admission ------------------------------
(***************************************************************************)
(* From sweep manifests to a deployment package: tilepo_admit decides and  *)
(* writes six files, tilepo_finalize_deployment checks the selected plan,  *)
(* copies the files and the manifests into the package and signs it off    *)
(* (src/tilepo/admission/scheduler.py and finalizer.py).  Neither writes   *)
(* atomically; each may be killed between two files or within one, and     *)
(* run again.  Sweeps rewrite the manifests in between.  The tools are     *)
(* command line programs run one after the other.                          *)
(*                                                                         *)
(* The package may be a directory of its own or one of the directories the *)
(* inputs lie in.  Every content is a record of what was written and       *)
(* whether the write was cut short.                                        *)
(***************************************************************************)
EXTENDS AdmissionGate, SequencesExt

CONSTANTS
  Sources,        \* directories of the manifests, in the order of the arguments
  Outs,           \* directories the package may be written to
  FirstEvidence,  \* what sweeps have left at first: sets of functions on Sources
  LaterEvidence,  \* rows a sweep may replace a manifest by
  MaxSweeps, MaxAdmissions, MaxReleases, MaxCrashes   \* bounds on the runs

SourceDirs == {Sources[i] : i \in DOMAIN Sources}

\* A list of rows, each of whose metrics is a number or missing.
AreRows(rows) ==
  /\ rows \in Seq(Range(rows))
  /\ \A i \in DOMAIN rows, m \in Metrics : rows[i][m] \in Int \union {Missing}

ASSUME EvidenceAssumption ==
  /\ Missing \notin Int
  /\ \A evidence \in FirstEvidence, d \in SourceDirs : AreRows(evidence[d])
  /\ \A rows \in LaterEvidence : AreRows(rows)

ASSUME DirAssumption ==
  Sources \in Seq(SourceDirs) /\ "admission" \notin SourceDirs

VARIABLES
  pc,       \* "idle", "admit", "copy", "sign" or, after a finalization, "released"
  step,     \* number of the file being written
  disk,     \* content of the files that exist
  out,      \* out_dir of the finalizer
  summary,  \* of the admission in progress
  plan,     \* selected_plan in the finalizer's memory
  copied,   \* names in the package so far
  inputs,   \* contents of the finalizer's inputs when it started (history)
  interrupted,  \* the latest admission did not end (history)
  runs      \* of each kind so far

vars == <<pc, step, disk, out, summary, plan, copied, inputs, interrupted, runs>>

Path(dir, base, nth) == [dir |-> dir, base |-> base, nth |-> nth]
Manifest(dir) == Path(dir, "tilepo_sweep_manifest", 1)
AdmissionFile(base) == Path("admission", base, 1)
Packaged(name) == Path(out, name.base, name.nth)
Name(base) == [base |-> base, nth |-> 1]

Whole(body) == [body |-> body, torn |-> FALSE]
Torn(body) == [body |-> body, torn |-> TRUE]

\* The disk after a file has been written, new or over an old one.
Written(p, content) ==
  [q \in DOMAIN disk \union {p} |-> IF q = p THEN content ELSE disk[q]]

NoSummary == [gate |-> "none", selections |-> <<>>, rows |-> <<>>]

Init ==
  /\ pc = "idle" /\ step = 1
  /\ \E evidence \in FirstEvidence :
       disk = [p \in {Manifest(d) : d \in SourceDirs} |-> Whole(evidence[p.dir])]
  /\ out \in Outs
  /\ summary = NoSummary /\ plan = NoSummary
  /\ copied = <<>> /\ inputs = <<>>
  /\ interrupted = FALSE
  /\ runs = [sweeps |-> 0, admissions |-> 0, releases |-> 0, crashes |-> 0]

Between == pc \in {"idle", "released"}
Count(kind, bound) ==
  runs[kind] < bound /\ runs' = [runs EXCEPT ![kind] = @ + 1]

\* A sweep writes its manifest (module Sweep says how).
SweepAgain(d, rows) ==
  /\ Between /\ Count("sweeps", MaxSweeps)
  /\ disk' = Written(Manifest(d), Whole(rows))
  /\ pc' = "idle"
  /\ UNCHANGED <<step, out, summary, plan, copied, inputs, interrupted>>

-----------------------------------------------------------------------------
\* _load_rows.
LoadedRows == FlattenSeq([i \in DOMAIN Sources |-> disk[Manifest(Sources[i])].body])

\* With a manifest that does not parse, or without any row, admission raises
\* before it writes.
StartAdmission ==
  /\ Between /\ Count("admissions", MaxAdmissions)
  /\ \A d \in SourceDirs : ~disk[Manifest(d)].torn
  /\ LoadedRows # <<>>
  /\ summary' = Summary(LoadedRows)
  /\ interrupted' = TRUE
  /\ pc' = "admit" /\ step' = 1
  /\ UNCHANGED <<disk, out, plan, copied, inputs>>

AdmissionFiles ==
  <<"admission_summary", "admission_report_md", "admission_report_html",
    "selected_plan", "fallback_plan", "selected_server_command">>

SelectedPlan == [gate |-> summary.gate, selections |-> summary.selections]

\* Mutant: only workloads that TilePO serves need a fallback.
FallbackPlanOfTilePO ==
  LET sel == summary.selections
  IN  [w \in {v \in DOMAIN sel : sel[v].system = "TilePO"} |-> sel[w].fallback]

FallbackPlan == [w \in DOMAIN summary.selections |-> summary.selections[w].fallback]

\* What the script and the reports are made from.
ServerCommand == summary.selections
Report == summary

AdmissionBody(base) ==
  CASE base = "selected_plan" -> SelectedPlan
    [] base = "fallback_plan" -> FallbackPlan
    [] base = "selected_server_command" -> ServerCommand
    [] OTHER -> Report

\* The files are written whether or not the gate passes; admission raises
\* only after the last of them.
WriteAdmission ==
  /\ pc = "admit"
  /\ LET base == AdmissionFiles[step]
     IN  disk' = Written(AdmissionFile(base), Whole(AdmissionBody(base)))
  /\ IF step < Len(AdmissionFiles)
     THEN pc' = pc /\ step' = step + 1 /\ UNCHANGED <<summary, interrupted>>
     ELSE pc' = "idle" /\ step' = 1 /\ summary' = NoSummary /\ interrupted' = FALSE
  /\ UNCHANGED <<out, plan, copied, inputs, runs>>

-----------------------------------------------------------------------------
InputPaths ==
  <<AdmissionFile("selected_plan"), AdmissionFile("fallback_plan"),
    AdmissionFile("admission_report_md"), AdmissionFile("selected_server_command")>>
  \o [i \in DOMAIN Sources |-> Manifest(Sources[i])]

Exists(p) == p \in DOMAIN disk

\* Mutant: whatever plan there is is good enough.
AnyPlan(content) == ~content.torn

\* Only the gate inside the selected plan is looked at.  A torn plan does not
\* parse.
MayFinalize(content) == ~content.torn /\ content.body.gate = "PASS"

StartFinalization ==
  /\ Between /\ Count("releases", MaxReleases)
  /\ Exists(InputPaths[1])
  /\ MayFinalize(disk[InputPaths[1]])
  /\ plan' = disk[InputPaths[1]].body
  /\ copied' = <<>>
  /\ inputs' = [i \in {j \in DOMAIN InputPaths : Exists(InputPaths[j])} |-> disk[InputPaths[i]]]
  /\ pc' = "copy" /\ step' = 1
  /\ UNCHANGED <<disk, out, summary, interrupted>>

Used == {copied[i] : i \in DOMAIN copied}

\* Mutant: two inputs of one name go to the same file.
SameName(p) == Name(p.base)

\* _unique_name: the name itself, or the first free name_2, name_3, ...
UniqueName(p) ==
  LET nths == {n \in 1 .. Len(copied) + 1 : [base |-> p.base, nth |-> n] \notin Used}
  IN  [base |-> p.base, nth |-> CHOOSE n \in nths : \A k \in nths : n <= k]

\* _copy_inputs: an input that is its own copy stays as it is.
CopyInput ==
  /\ pc = "copy" /\ Exists(InputPaths[step])
  /\ LET name == UniqueName(InputPaths[step])
     IN  /\ disk' = Written(Packaged(name), disk[InputPaths[step]])
         /\ copied' = Append(copied, name)
  /\ IF step < Len(InputPaths)
     THEN pc' = pc /\ step' = step + 1
     ELSE pc' = "sign" /\ step' = 1
  /\ UNCHANGED <<out, summary, plan, inputs, interrupted, runs>>

\* A missing input makes the finalizer give up; what it has copied stays.
MissingInput ==
  /\ pc = "copy" /\ ~Exists(InputPaths[step])
  /\ pc' = "idle" /\ step' = 1
  /\ plan' = NoSummary /\ copied' = <<>> /\ inputs' = <<>>
  /\ UNCHANGED <<disk, out, summary, interrupted, runs>>

SignFiles == <<"README", "CLAIM_CHECKLIST", "raw_files", "tilepo_v0_1_release_manifest">>

\* raw_files.sha256: the copies and the two documents, as they are on disk.
Checksums ==
  [n \in Used \union {Name("README"), Name("CLAIM_CHECKLIST")} |-> disk[Packaged(n)]]

\* README and checklist say what the plan in memory says.
Document == plan

SignBody(base) ==
  CASE base = "raw_files" -> Checksums
    [] base = "tilepo_v0_1_release_manifest" -> [gate |-> plan.gate, files |-> Used]
    [] OTHER -> Document

Sign ==
  /\ pc = "sign"
  /\ LET base == SignFiles[step]
     IN  disk' = Written(Packaged(Name(base)), Whole(SignBody(base)))
  /\ IF step < Len(SignFiles)
     THEN pc' = pc /\ step' = step + 1
     ELSE pc' = "released" /\ step' = 1
  /\ UNCHANGED <<out, summary, plan, copied, inputs, interrupted, runs>>

-----------------------------------------------------------------------------
\* The process is killed before the next file, or while it writes it.
Tear(p, body) == disk' \in {disk, Written(p, Torn(body))}

Crash ==
  /\ ~Between /\ Count("crashes", MaxCrashes)
  /\ \/ pc = "admit" /\ LET base == AdmissionFiles[step]
                        IN  Tear(AdmissionFile(base), AdmissionBody(base))
     \/ pc = "copy" /\ LET p == InputPaths[step]
                           q == Packaged(UniqueName(p))
                       IN  IF Exists(p) /\ p # q THEN Tear(q, disk[p].body)
                           ELSE disk' = disk
     \/ pc = "sign" /\ LET base == SignFiles[step]
                       IN  Tear(Packaged(Name(base)), SignBody(base))
  /\ pc' = "idle" /\ step' = 1
  /\ summary' = NoSummary /\ plan' = NoSummary /\ copied' = <<>> /\ inputs' = <<>>
  /\ UNCHANGED <<out, interrupted>>

Next ==
  \/ \E d \in SourceDirs, rows \in LaterEvidence : SweepAgain(d, rows)
  \/ StartAdmission \/ WriteAdmission
  \/ StartFinalization \/ CopyInput \/ MissingInput \/ Sign
  \/ Crash

Spec == Init /\ [][Next]_vars

-----------------------------------------------------------------------------
InPackage(base) == disk[Packaged(Name(base))]

\* Admission leaves a complete set of files behind even when it rejects the
\* evidence (scheduler.py:111-118).  Whatever was admitted, rejected or cut
\* short before, a package that was finished holds a plan that passed its gate.
OnlyPassingPlansShipped ==
  pc = "released" =>
    /\ ~InPackage("selected_plan").torn
    /\ InPackage("selected_plan").body.gate = "PASS"
    /\ InPackage("selected_plan").body = plan

\* The plan, the fallback plan and the report in a finished package are of
\* one admission, and there is a fallback, at the selected budget, for every
\* workload; unless the latest admission was cut short, of which the
\* finalizer, who reads the gate alone, knows nothing.
PlansOfOneAdmission ==
  pc = "released" /\ ~interrupted =>
    LET selections == InPackage("selected_plan").body.selections
        report == InPackage("admission_report_md").body
    IN  /\ report.gate = "PASS" /\ report.selections = selections
        /\ InPackage("fallback_plan").body
             = [w \in Workloads |-> selections[w].budget]

\* The name under which input i of a finished package was stored.
StoredAs(i) == Packaged(copied[i])

\* No copy has landed on an input that was still to be copied.
NoInputOverwritten ==
  \A i, j \in DOMAIN copied : i < j => StoredAs(i) # InputPaths[j]

\* A finished package holds every input as it was when the finalizer started,
\* manifests of one name from several sweeps included, and nothing in it
\* differs from its checksum.  A package written into the directory of an
\* input may lose it, but only where a copy landed on it first.
PackageIsFaithful ==
  pc = "released" =>
    /\ NoInputOverwritten =>
         \A i \in DOMAIN InputPaths : disk[StoredAs(i)] = inputs[i]
    /\ \A n \in DOMAIN InPackage("raw_files").body :
         disk[Packaged(n)] = InPackage("raw_files").body[n]

-----------------------------------------------------------------------------
\* At least half of the values of f are in part.
Half(part, f) == DOMAIN f # {} /\ 2 * Cardinality(part) >= Cardinality(DOMAIN f)

\* Some value, half of another metric's unit apart, separates at least half
\* of the one from at least half of the other.
Sums(f) == {f[i] + f[j] : i, j \in DOMAIN f}

TailHeld(b, c) ==
  \E t \in Sums(b) :
    /\ Half({i \in DOMAIN b : 2 * b[i] >= t}, b)
    /\ Half({i \in DOMAIN c : 2 * c[i] <= t}, c)

ThroughputWon(b, c) ==
  \E t \in Sums(b) :
    /\ Half({i \in DOMAIN b : 2 * b[i] <= t}, b)
    /\ Half({i \in DOMAIN c : 200 * c[i] >= t * (100 + WinPercent)}, c)

\* What a passing gate says of the measurements, without medians: no row of
\* any manifest is disqualified, and where TilePO is selected there is a line
\* that half of KT's rows do not exceed and half of TilePO's exceed by the
\* threshold, and both tails are held in the same sense.
AdmittedByMajority ==
  pc = "admit" /\ summary.gate = "PASS" =>
    /\ ~Flawed(summary.rows)
    /\ \A w \in Workloads :
         LET sel == summary.selections[w]
             values(system, m) ==
               Recorded(summary.rows, FirstRepeats(Cell(summary.rows, w, sel.budget, system)), m)
         IN  sel.system = "TilePO" =>
               /\ ThroughputWon(values("B", "tok"), values("C", "tok"))
               /\ \A m \in {"p95", "p99"} : TailHeld(values("B", m), values("C", m))

-----------------------------------------------------------------------------
\* "let admission choose the best observed policy for that model and workload"
\* (paper/tilemem_tilepo_v0_1_technical_report.md:88-89): at the selected
\* budget no placement policy with enough rows of its own beats KT by the rule
\* of admission and has a higher score than what was selected.  The code pools
\* the rows of all policies.
BestObservedPolicyChosen ==
  pc = "admit" /\ summary.gate = "PASS" =>
    \A w \in Workloads :
      LET sel == summary.selections[w]
          cell(system) == Cell(summary.rows, w, sel.budget, system)
          kt == Aggregate(summary.rows, FirstRepeats(cell("B")))
          of(p) == {i \in cell("C") : summary.rows[i].policy = p}
      IN  \A p \in {summary.rows[i].policy : i \in cell("C")} :
            Cardinality(of(p)) >= Repeats =>
              LET measured == Aggregate(summary.rows, FirstRepeats(of(p)))
              IN  StrictWin(kt, measured) => measured.tok <= sel.tok

=============================================================================
