# TileMEM: a TLA+ verification project

This directory specifies the parts of TileMEM whose correctness depends on the
order of steps, on what a failure leaves behind, or on state that outlives a
process. TLC checks the specifications on small instances; TLAPS proves, for all
values of the constants, the safety properties of the memory manager and that it
implements its abstract cache, those of the scheduler's plans and the replay, of the ring, of the
sweep, of admission and finalizer, of the serving hook's evidence and of the tile runtime, the cutting
of a plan, the layout of its manifest and the dispatch of its handles, the order and the copies of a
prepared checkpoint's files, what verified evidence contains, and what a deployment plan covers.

Paths below are relative to the repository root (`src/memory_manager.cc` is the
C++ file of that name, `tilepo/` the Python package).
`publish/TileMEM_TilePO_V0_1_20260611/` holds a copy of the tree, its sources byte
for byte the same: what is said of a file here holds of its copy there.

## 1. The system and its components

TileMEM serves mixture-of-experts models whose weights do not fit in GPU memory.
It has two halves that share ideas rather than code.

**The C++ replay runtime** (`src/`, `include/tilemem/`, `tools/replay/`) replays
a routing trace against a file of expert weights cut into *storage tiles*.

| component | state | operations | talks to |
| --- | --- | --- | --- |
| `MemoryManager` | two pools (budget, used bytes, allocations), a table of entries with LRU stamps, a clock | `ensure_hbm` | `IoQueue`, `H2DQueue` (calls that throw) |
| `Scheduler` | the manifest and the trace | `plan`, `required_for_event` | - |
| replay `main` | sets of prefetched and used tiles, metrics | one pass over the trace | scheduler, memory manager, compute queue |
| `UringIoEngine` | the rings shared with the kernel | `read_exact` | kernel |
| queues, FP4 GEMM | CUDA stream and events | `copy`, `read`, `run` | driver |

**The Python side** (`tilepo/`, `tilemem/`, `tools/`) compiles plans, patches
itself into a serving process, and gathers the evidence on which a plan is
admitted.

| component | state | operations | talks to |
| --- | --- | --- | --- |
| `TileMEMRuntime` | residency of tiles, plan cache, counters | `execute`, `prefetch_plan` | a backend that may raise |
| `TileMEMKTPatch` | mode, counters | `run` | KT and the runtime |
| serving hook, bootstrap | counts in each process, one marker file for all | wrapped MoE calls, flushes, start-up, exit | other processes through the file |
| sweep | list of runs, manifest | `run_sweep`, checkpoints, adoption of old rows | bench (subprocess), rows and markers on disk |
| bench | the server's process group, one row | start, measure, stop | server through its port |
| admission, finalizer | six report files, a release directory | `admit_tilepo`, `finalize_tilepo_deployment` | manifests of the sweep |
| evidence: merging, ablation report, `tilemem evidence verify`, SDK | merged manifest, one summary file | merge, report, verify, headline gain | manifests of the sweep |
| compiler, machine IR, model interface | none | lowering to tiles, layout of a manifest | - |
| integration handles | registry of backends; handles are copies | register, clear, build | manifest |
| checkpoint preparation | six files and copied shards in a directory | export, serve | compiler, a server (subprocess) |
| profiler, autotuner, hot set export | files | coverage, plans, ranking | - |

`PROJECT.json` lists all components with their status.

### What is hard here

- **Failures in the middle of a call.** `ensure_hbm` allocates, reads, evicts,
  allocates, copies and releases; each can throw, and nothing is rolled back.
- **Two tiers, one clock.** An eviction from DRAM takes the HBM copy with it.
- **Prefetching against demand.** Prefetches of an event run before its kernels
  and evict from the tiers the kernels need.
- **A ring shared with the kernel.** A failed submission leaves an entry behind,
  and completions are not matched with requests.
- **One file, many processes, no lock.** Hooks read, truncate and rewrite the
  marker; the bench ends them with SIGTERM, which flushes nothing.
- **Files that outlive their sweep.** Rows, markers and servers of a killed sweep
  meet those of the next, because names and ports do not tell sweeps apart.
- **Files written one by one.** Admission, finalizer and the checkpoint export write
  up to ten files each, not atomically, and admission writes all of its own before it
  says that it rejects.
- **Evidence by counting.** A report asks for at least so many rows of each
  group, and everything after it reads the one summary that lies there.
- **Names as keys.** Tensors reach tiles by parts of their names, shards their copies by
  base names, handles their backends by registered names.
- **Borders of the arithmetic**: thresholds and medians with missing values,
  shards that do not divide a matrix, tile ids that come twice, scores finer than
  single precision.
- **Exceptions of a backend**, which nothing between it and the caller catches.

`PROJECT.json` has every hazard with its line and the properties that watch it.

## 2. The modules

| module | models | composed with |
| --- | --- | --- |
| `MemoryManager` | `src/memory_manager.cc` | - |
| `TileCache` | what the memory manager promises (abstract) | - |
| `MemoryRefinement` | the mapping of the one to the other | EXTENDS `MemoryManager`, INSTANCE `TileCache` |
| `MemoryManagerProofs` | theorems about `MemoryManager`, the refinement, `Replay` and `Scheduler` | EXTENDS `MemoryRefinement`, `Replay` |
| `Scheduler` | `src/scheduler.cc` | - |
| `Replay` | `tools/replay/main.cc` | EXTENDS `MemoryManager`, INSTANCE `Scheduler` |
| `UringEngine` | `src/io_engine.cc` and the kernel's half of the ring | - |
| `TileRuntime` | `tilepo/runtime/`, `tilepo/kt_patch/patch.py` | - |
| `HookMarker` | `tilepo/kt_patch/sglang_hook.py`, `bootstrap.py` | - |
| `Sweep` | `tilepo/sweep.py`, `tools/openai_varprompt_bench` | - |
| `AdmissionGate` | the decision in `tilepo/admission/scheduler.py` | - |
| `Admission` | the files of `scheduler.py`, and `tilepo/admission/finalizer.py` | EXTENDS `AdmissionGate` |
| `Evidence` | `tilepo/ablation.py`, `tilepo/reporting/ablation.py`, `tools/tilemem`, `tilemem/sdk.py` | beside `Admission` in `MCAdmission` and `AdmissionProofs`, which extend both |
| `TileLowering` | `tilepo/compiler.py`, `tilepo/model_interface.py` | - |
| `TileManifest` | `build_manifest` in `tilepo/mir/schema.py` | - |
| `TilePlan` | from a plan to its manifest | EXTENDS `TileManifest`, `TileLowering` |
| `TileHandles` | `tilepo/integration.py` | EXTENDS `TileManifest`; `HandlesSpec` composes them; beside `TilePlan` in `MCTilePlan` |
| `Checkpoint` | `tilemem/checkpoint.py`, `tools/tilemem_checkpoint_prepare` | EXTENDS `TileLowering` |
| `ProfileTuning` | `tilepo/profiling/profiler.py`, `tilepo/autotune.py`, `tilepo/kt_hotset.py` | - |
| `UringEngineProofs`, `TileRuntimeProofs`, `HookMarkerProofs`, `SweepProofs` | theorems about the module of that name | EXTENDS it |
| `AdmissionProofs` | theorems about `Admission` and `Evidence` | EXTENDS them |
| `PreparationProofs` | theorems about `TileManifest`, `TilePlan`, `TileHandles`, `Checkpoint` and `ProfileTuning` | EXTENDS them |
| `Collections` | lemmas about least and greatest numbers, the smallest exception, sums over finite sets, and lists that are joined and flattened | extended by the proofs that need them |

The `MC...` modules give the constants their values. Each specification keeps the
names of the code where it can; comments on the variables name the field they
stand for. An operator under a comment "Mutant:" is a plausible bug, not part of
the specification: each names a way in which the definition below it could be
wrong, and each property is violated by at least one of them (`PROJECT.json`,
"mutants").

### MemoryManager and TileCache

`pc` says where the call in progress stands: `idle`, `dram` (making room and
allocating in DRAM), `read`, `hbm` (making room and allocating in HBM), `copy`, or
`dead` once an exception has ended the process. A step is everything between two
places where the code can throw; one iteration of an eviction loop is one step.

- `EnsureRejected`, `EnsureHit`, `EnsureDramHit`, `EnsureMiss`: entry and the
  four ways on (`ensure_hbm`, 188-207).
- `EvictDram`, `EvictHbm`, `NoDramVictim`, `NoHbmVictim`: the loops.
- `AllocateDram`, `ReadTile`, `AllocateHbm`, `Copy`: the path of a miss.
- `...Fails`: the same places when the driver or the read fails. `release`
  subtracts, frees, then erases, so a failing free leaves the counter lower and the
  allocation in place.

A pointer is the number of the call that made it. The byte counters are `size_t` in the code:
a negative integer stands for a wrapped value, which is larger than any budget.

`TileCache` forgets clocks, pointers, counters and allocation tables: two nested
sets of tiles, an order of requests (the pairs of tiles of which the second was
requested later), and bytes that are lost. `MemoryRefinement`
maps the one to the other. Its `asked` is a history variable that is kept by the
requests alone, so the refinement really compares the LRU stamps with the order; lost
bytes are computed from the allocations no entry refers to.

### Scheduler and Replay

`Scheduler` is operators only. Scores are compared as the exact fractions the code's doubles
stand for (which would round only for token counts and sizes near 2^53); equal scores leave the order open, as `std::sort` does. `Distance` is the code's
`distance_penalty`, whose 1000.0 also means "not set" (`Unset`): a first use exactly that far ahead is overwritten by the next one. `Due` is
the first use of the trace, whatever the distance says. `At` builds a list from the indices it keeps, in their order: required tiles, repeats removed, and
`remove_if` are all of this kind. `Replay` runs the loop of `main`: `Plan`, then for each planned
tile `PrefetchCall` ... `PrefetchReturn`, then for each required tile `RequiredCall`
... `Compute`, with the memory manager's own steps between call and return.
Exceptions end it (`EnsureThrew`, `ComputeThrows`, `FinishThrows`), and `Finish` derives the
reported metrics.

### UringEngine

`WriteSqe`, `Enter` or `EnterFails`, and `ReapReturns` or `ReapThrows` are the
call's steps; `Complete` is the kernel's, which may finish with an error or with
any number of bytes. Ring indices wrap at `IndexSpan` and lengths are cut at `LengthSpan`
(2^32 in the code, 4 and 3 in the run, so that both happen). That the kernel takes
entries in order and finishes what it took is assumed (external).

### TileRuntime

A request is its routing, `force_gate_fail`, `require_tilemem` and its calibration
verdict. KT's output is missing, broken or usable (`KtOutputs`): broken if its first value is NaN or infinite,
because then the error is NaN, even of a comparison with itself, and no NaN is at most the threshold (`Judge`). `execute` ends in one of four ways: `GateFailed`, `BackendUnavailable`,
`BackendRaises`, `Launch`. The patch's modes combine them with KT's answer. The eight residency
states are collapsed to two: `mark_gpu_resident` walks a cold tile to
GPU_RESIDENT in one call, and no code moves it back.

### HookMarker

A process starts (`Start`, `StartFails`), merges its installation and then its
bootstrap state into the marker, counts wrapped calls and flushes. Each update is a read into
`buffer` and a write in two steps, truncation and close; between any two of them
other processes run. Two overlapping writes may leave a file that does not parse.
`Kill` ends a process anywhere, and `UpdateRaises` is an I/O error before or after the
truncation, which goes where the code lets it go: into the wrapped call, into
`sitecustomize`, or to the interpreter's exit.

### Sweep

A run of a sweep goes through `Skip` or `Launch`, `Measure` or `MeasureFails`,
`StopServer`, `WriteRow` or `TearRow`, and `Checkpoint`. `Crash` may end a sweep anywhere. A sweep's number
stands for its run ids and for the servers it starts, so that a row, a marker
and a listening server can be traced to the sweep they come from. A sweep's configuration says, among other things, whether its runs of system C have
the hook or KT's own mode (`HookConfigs`, the code's `c_mode`); sweeps of one directory may differ in it. Only hooked servers write markers (`Hooked`), but a
marker is looked for beside every row of system C (`Probe`). `StartBlocked` and `DryRun` replace the manifest without running anything.

### AdmissionGate and Admission

`AdmissionGate` is operators only: the rows of a cell as a set of indices, medians over their first `Repeats`,
the strict win, the best budget and the gate. A metric is an integer or missing;
medians are kept doubled and the threshold is a percentage, so that all comparisons
are exact. Which of a row's details disqualifies it is one field, `flaw`.

`Admission` is the life of the files. `StartAdmission` decides, `WriteAdmission` writes
one of the six files per step and does so for a rejected plan too.
`StartFinalization` checks the gate in `selected_plan`, `CopyInput` copies one input under
its unique name, `MissingInput` gives up, `Sign` writes `README`, checklist, checksums and release
manifest. `Crash` ends either tool before or within a write. The tools run one
after the other, as an operator runs them; `SweepAgain` replaces a manifest in
between. A tool that raises before it writes anything (no rows, a torn manifest, a plan
that did not pass) changes nothing and is a guard.

### Evidence

Actions over one directory: `SweepWrites` (what module `Sweep` ends
with), `Merge`, `WriteReport`, `Verify`, `Headline`, in any order and by whoever runs
them. A row is its group and one `flaw`; a report has the number of rows of each group.
`WriteReport` and `Verify` write the summary whether or not the gate passes, and
leave the old one where the statistics raise. The median that makes a group the best is
a choice, so a headline may come from every group the code would consider.

### TileLowering, TileManifest, TilePlan and TileHandles

`TileLowering` says which tiles a plan or a public model spec has (`Tiles`, `Ranges`, the
two ways of cutting). `TileManifest` is the loop of `build_manifest`: `Validate`, a
`LayNext` for each tile in the order of ids, which also notes what the tile says of
its format, scales, backend and fallback (`NoteDress`), then `Finish`. A list of
tiles may have an id twice. `TilePlan` builds a manifest of a plan's tiles.
Extents, widths and shard counts are small numbers; a plan whose precision is not
acceptable has no model. `TileHandles` adds the process that uses a finished
manifest: `Register` and `Clear` change the registry, `BuildHandles` copies what
it says at that moment.

### Checkpoint

An export is `Begin` (everything that only reads: topology, lowering, names) or
`Refuse`, then one `Write` per file and one `Copy` per shard in the order of
`Stages`, then `Serve`. `ShardMissing` and `Break` end it between writes or inside one.
A tensor's name is a sequence of parts, a shard a pair of subdirectory and base
name. The directory may already hold an earlier export, or the checkpoint itself.

### ProfileTuning

Two tools use one profile. The autotuner is run with one set of budgets after the other (`Retune`): hits of a profile, coverage of a budget,
the four plans and the choice at run time are operators. The export reads the recorded counts into single precision numbers (`Convert`) and adds
those of several slices (`Add`), two terms at a time in any order, because the tensor library may vectorise or nest the sum; then
ranks and exported scores are operators again. `Single` rounds to the nearest number of 24 bits, ties to even: counts up to `Exact`
(2^24) do not change, larger ones are multiples of the least of the `Spacings` at which they fit. A count that is not finite is refused. That the recorded
counts add up to the profile's hits is assumed (external). Coverage is kept in hits, so that no
quotient is rounded; scores are kept in units of 10^-9 and rounded to the spacing of
single precision numbers, because the bonuses that order equal scores are
smaller than that spacing.

## 3. What is checked

Deadlock checking is off in every run but `planning`: each of the other specifications
stops, either because the process ends or because a bound is reached.

| run | instance | what it shows |
| --- | --- | --- |
| `memory` | 5 tiles of 1, 1, 1, 2 and 3 units, tiers of 3 and 2, 5 calls, 2 faults, the DRAM cache on and off; a caller that retries, and one that stops and meets failing frees too | budgets, live buffers, nested tiers, bounded leaks, LRU order, victims |
| `memory_refinement` | the same with the caller that retries | `MemoryManager` implements `TileCache`; each accepted call ends |
| `planning` | 94 profiles of 2 layers of 5 experts, counts from 1 to 9 where up to 4 are exact, in 1 or 3 slices, and 5 sets of budgets | deployment plans cover the hits they expect, as far as they are counted exactly |
| `replay` | all 10 policies and all traces of 3 events of 1 or 4 tokens over 4 tiles of 50 MiB together in tiers of 30 and 20, and those of 4 events that begin with a repeated one; lookahead 2, `Unset` 2, 1 fault | plans are what is upcoming, what is due or better first, kernels run on resident weights, what the metrics mean |
| `uring` | ring of 2, 7 reads, 2 failing submissions | what holds before and after a submission fails; reads end |
| `hook_marker` | a server of 2 processes whose bootstrap may fail and one of 1 process; 4 calls, 3 starts, 2 kills or failing updates | evidence never over-counts; what a kill or a failing update can lose |
| `tile_runtime` | 4 tiles, 5 routings, 4 requests, every mode and set of backends, missing, broken and usable outputs of KT | plan cache, transfers, accounting of requests, fallbacks and verdicts |
| `sweep` | 2 runs of system C, 4 sweeps with the hook or in KT's mode, 2 faults; sites with and without orphaned servers and torn rows, every habit with the skip flag | final manifests are complete, rows meet their evidence and commands, rows stay, sweeps end |
| `admission` | 2 workloads, 2 budgets, 2 repeats, 2 sweeps with evidence around each border of the gate; 2 admissions, 2 finalizations, 1 new manifest, 1 kill; package in a new directory, that of admission or that of a sweep. Or: a release grid of 1 workload, 1 budget, KT and 1 policy, 2 repeats; 5 steps of sweeps, merges, reports and verifications | what is shipped has passed, its files belong together, the package is faithful, a pass means a win of the majority; verified evidence is the release grid and has a headline |
| `tile_plan` | 3 policies, 16 shapes around extents 3 and 5, 4 precisions, plans and specs; all lists of up to 3 tiles of 2 ids, some dressed; 3 calls of registry and handles | no byte is shared, columns are covered once, the layout is packed in order; dispatched tiles are supported |
| `checkpoint` | 7 checkpoints of up to 2 layers, 3 experts and 2 shards in the spellings of several families, 3 selections, 3 exports, 1 break | files are written in order, an artifact that is served is whole and faithful, tensors reach their tiles |
| `admission_policies` | rows of 2 placement policies at one budget | **violated**: the best observed policy is not chosen (below) |

A run covers several configurations at once: a variable that never changes
(`setup`, `server`, `site`, `tool`) holds the configuration, and the initial states range
over all of them.

Why these bounds are enough. In the memory runs each tier holds fewer tiles than there are,
tiles differ in size so that one call evicts several, one tile fits DRAM and not HBM,
and five calls let a tile be loaded, evicted, loaded again and fail in between. The
replay's traces revisit tiles after eviction within three events, and 20 MiB, 4 tokens and one event
weigh about as much in a score. `Unset` is 2 there, so that a tile may be due exactly that far ahead and again one event later. In `uring` both failing submissions can precede three good reads and the
indices wrap once. `hook_marker` has an old marker, a failing bootstrap, and a process that
starts again in the middle of the other's flush. `sweep`: a crash in the second run of
one sweep meets the next sweep and the one after it. `admission`: the second
admission and finalization meet what the killed first ones left. `tile_plan` has
widths below, at and beyond the extents, and too few and too many shards, and its
three calls register a backend, build the handles and change the registry.
`checkpoint`: two more exports meet every cut of the first. `admission`'s five evidence steps are
two sweeps, a merge, a verification and one step that comes between. In `planning` five experts fill
more than one band of the ranking and counts tie within them; single precision numbers have 3 bits, so that 5 is read as 4, and 4 + 1 + 1
is 4 or 6 by the order of the additions.

Bounds that are not in the code: `MaxCalls`, `MaxFaults`, `MaxReads`,
`MaxEnterFailures`, `MaxStarts`, `MaxRuns`, `MaxSweeps`, `MaxAdmissions`, `MaxReleases`,
`MaxCrashes`, `MaxExports`, `MaxBreaks`,
`MaxSteps`, `TraceLength`. Three constants have small values in the runs: `Unset` is 1000 in the code, `Exact` 2^24,
and `Spacings` the powers of two up to 2^104.

### Fairness

- `MemoryManager`: `WF(CallStep)`. A call is straight-line code on one thread;
  nothing asks that a call is made. The liveness of `TileCache`, that every request
  is served or given up, follows from it in `memory_refinement`.
- `Replay`: `WF(ReplayStep)`. One thread runs `main` to its end. The properties of its
  run are safety.
- `UringEngine`: weak fairness of the call's own steps and of `Complete`. The
  kernel finishes a read it has accepted; without this, the loop at
  `io_engine.cc:146` would wait for ever.
- `Sweep`: `WF(SweepStep)`. Each wait of sweep and bench has a timeout.
- The other specifications state safety only.

### What the runs say about the code

These follow from properties that hold, and are worth knowing:

- `prefetch_waste` is always 0 in a finished replay (`PrefetchMetrics`): it
  counts tiles never used at all. So is `eviction_count`, the difference of two counters
  that `ensure_hbm` only ever increments together.
- After k failed submissions each read is served the completion of the request k calls
  earlier (`LateByFailedEnters`), until the ring refuses them all. The replay
  tool exits at the first, so this concerns other callers.
- The hook's verification compares the wrapped call's answer with itself
  (`sglang_hook.py:294`) and so cannot fail. In the patch's VERIFY mode a fallback
  is a comparison of KT with itself too: it counts as a pass, and as a failure if KT's output is missing or begins with NaN or an infinity
  (`RequestsAccounted`).
- A marker update that raises replaces the answer of the wrapped call, whose count is kept and written
  with the next flush. If it raises after the truncation, the bootstrap's
  fields are gone and the run's evidence is never accepted; if it raises during start-up, the process is hooked and
  the marker says it is not (`SoleProcessKeepsEvidence` excuses both).
- A torn row of any run but the first blocks every later sweep of the directory at
  its first checkpoint (`RowsStay`).
- A rejected admission leaves the same six files as an accepted one; only the finalizer's look
  at the gate keeps them out of a package (`OnlyPassingPlansShipped`).
- TilePO is preferred wherever any budget admits it, even if KT has a better score at
  another; medians are over the values that are recorded, so a single one decides if the
  other repeats lack the metric; a manifest given twice counts its rows twice.
- A bf16 policy does not look at the allow list, and `_covering_shards` does not cover if
  `shard_count` is too small: `ColumnsCoveredOnce` speaks of the columns within
  `width * shard_count`. `configs/tilepo_olmoe_default.tmem` stays below the matrix: with intermediate size
  8192, tiles of 256 and 4 shards, 1024 columns have tiles.
- An id listed twice is not rejected. No byte is shared even then (`RegionsApart`), but room
  is lost and the first tile has no offset. Its handle may mix what the two said of formats and scales.
- Handles keep their answer: after `clear`, or after a backend is registered again with
  less, they still say dispatchable (`DispatchedTilesAreSupported` excuses this).
- A prepared directory whose export was cut short has a newer spec, MIR and manifest beside an
  older map and summary; only the summary, which comes last, tells
  (`WrittenInOrder`). Shards of one base name land on one copy, the later one wins;
  exporting with copies into the parent of a directory `weights` overwrites its shards. Without an index no tensor
  matches any tile, and the tool still exits with 0. It selects only the active experts
  and cuts at most 4 tiles of 256 columns, whatever the model's width.
- A dry run, and a server that outlives its timeout (exit code 124), leave the same
  artifact as one that was served; `PreparedArtifactIsFaithful` covers all three.
- Evidence that passes verification is the release grid and nothing else
  (`VerifiedEvidenceIsExact`), though the report itself only asks for enough rows: it is the totals
  compared afterwards that make it exact. That repeats are different measurements is checked nowhere:
  a merged manifest lists twice what it is given twice. A summary that passes only its own gate, of a simulated
  report or of a verification that failed afterwards, is answered from as well by
  `v0_1_headline_gain`.
- An expected coverage is a lower bound (`PlansCoverWhatTheyExpect`): it counts the budget
  over all layers, where a plan keeps as many of each. Beyond 2^24 hits of one expert it is not: 16777216 and 16777217 are one
  single precision number, so the colder expert may be kept and the plan cover less than it expects. What it misses are hits that no
  such number tells apart: counting the hits of an expert only up to 2^24, what is kept covers at least what the most common experts do. `select_runtime_plan` never
  returns the memory plan. A requested budget of 0 is covered as 1 but kept as 0, and is
  left out of the run's budgets.

One disagreement of code and documents (`PROJECT.json`, "findings"):

- The technical report says of a user who runs the sweeps that admission chooses "the best
  observed policy for that model and workload" (`paper/tilemem_tilepo_v0_1_technical_report.md:88-89`).
  `_group_rows` (`scheduler.py:168-182`) does not know placement policies: given the manifests of
  two policies it judges the first `repeats` rows of the two together. In `admission_policies` the first policy
  misses the threshold, the second passes it by far, and KT is selected
  (`BestObservedPolicyChosen`). Which is chosen depends on the order of the arguments.

These are limits of properties that hold, found by lifting their conditions:

- `EvidenceMatchesRow` fails for an operator who alternates sweeps with
  and without `--skip-existing-success`: a sweep without the flag that dies after its
  server's bootstrap leaves the old row and a new marker, and the next sweep
  with the flag adopts the marker's id with the old row. The repository's own
  script always passes the flag (`scripts/reproduce_with_model.sh:84`).
- It fails as well if a server outlives a killed sweep: the next
  sweep's server cannot bind the port, its bootstrap has nevertheless written the
  marker, and the old server is measured.
- It excuses an adopted row that was measured in KT's own mode: if a hooked sweep failed in this directory first and one with
  `c_mode` `kt_native` succeeded, its row has a run id of its own and no evidence; a later sweep that resumes adopts the old marker's id
  with the row, and the failed sweep's probe becomes the row's (`sweep.py:829-837`, `851`).
- `BetterTilesFirst` excuses a better tile whose first use is exactly 1000 events ahead and is followed by another: `scheduler.cc:101` takes its
  distance for "not set" and overwrites it, and the tile is ranked as if it were due later. Without the exception TLC finds a
  worse tile before it.
- `DispatchedTilesAreSupported` excuses handles that are older than a loss of the registry, and models that list an id twice.
- `FinalManifestIsComplete` says nothing of who was measured: a row of a server that survived its sweep is a row like any other.
- `CommandIsMeasured` excuses adopted rows, which may have been measured with
  arguments the file name does not carry.
- `PoolsWithinBudget` needs that no free fails: after one, the counter is lower than
  what the pool holds.
- `PlansOfOneAdmission` excuses a latest admission that was cut short: its
  selected plan may already be new and its fallback plan and reports old, and
  the finalizer packages both.
- `PackageIsFaithful` excuses a package in the directory of an input: a copy
  of the first manifest may replace the second before that is copied. The
  manifests are copied as they are at the finalization, which may be
  later sweeps' than those admission saw.

## 4. What is proved

All theorems hold for every value of the constants that satisfies the named assumptions of
their module, for any number of calls, sweeps, restarts and failures. Most properties are not
inductive as they stand; the strengthened invariant of each proof is a conjunction of named
parts, with one step per action.

Two things are reached by a detour. The library's induction theorems cannot be
instantiated by the provers, so induction over finite sets and numbers is by the smallest exception: a property of
subsets that fails has a smallest subset for which it does (`SmallestException`, from
`FS_SubsetStrictSubset` and the well-foundedness of the naturals; `LeastOf`). And sums over
finite sets are characterised by taking out one element (`IsTotal`, `TotalUnique`, `TotalExists`), which
gives `SumTakesAny`: a sum loses what any one element contributes. These lemmas are in `Collections`, with those
about what a flattened list contains (`FlattenIs`), by the smallest exception too.

### Memory manager (`MemoryManagerProofs`)

- `TypeCorrect`: `Spec => []TypeOK`. The other results use it; no run repeats it.
- `ResidentBuffersAlwaysLive`: `Spec => []ResidentBuffersLive`. That a new buffer is shared
  with no resident needs that pointers are never
  newer than the clock and that, while a call is in progress, all residents' pointers are
  older. `BufferInv` adds this and what each value of `pc` implies about the tile being served.
  Three lemmas say what releasing, allocating and admitting do to
  `OwnBuffers`; `BufferInvStep` goes through the actions.
- `InclusionHolds`: `Spec => []Inclusion`, from `TierInv`, which adds that the tiers
  are disjoint when the DRAM cache is off, and from `BufferInv` (a tile is
  copied only while it is in DRAM).
- `RecencyOrderHolds`: `Spec => []RecencyOrder`, from `RecencyInv`: stamps are
  distinct, never newer than the clock, and the tile being served has the newest.
- `PoolsStayWithinBudget`: `Spec => []PoolsWithinBudget`. `LedgerInv` says that pointers are
  unique in a table and that the counter is the sum of the table and at most the budget
  (`Exact`), as long as no free has failed. `ReleaseBalances`: the counter and the sum lose the same bytes.
- `LeaksStayBounded`: `Spec => []LeaksBoundedByFaults`. `LeakInv` counts the buffers that are neither a resident's
  nor in flight, in the middle of a call too; only `ReadTileFails`, `CopyFails` and
  failing frees add one, and each adds a fault.
- `NeverStarvedFirst`: `Spec => []NeverStarvedWithoutFault`: with no fault there is no leak, so
  an empty tier has an empty counter, and what was accepted fits it.
- `TileCacheImplemented`: the initial states and the steps of `RefinementSpec` are those of
  `TileCache` or stutters, for configurations whose frees succeed. `BalanceInv` splits a pool's counter into residents, lost
  bytes and the buffer in flight, `AskedInv` says that the history's order is that of the stamps,
  so `Oldest` is least recent in the abstract order (`OldestIsLeastRecent`) and what fits the counter is no abstract
  pressure (`FitsIsNoPressure`). The liveness of `TileCache` stays with TLC.

### Scheduler and replay (`MemoryManagerProofs`)

Assumed of the manifest and the traces: that they are lists, that token counts are integers, and that `TileOrder` lists each tile once
(`TraceAssumption`, `ManifestAssumption`).

- `PlansAreUpcoming`: `ReplaySpec => []PlanIsUpcoming`. Each operator of `Scheduler` has a lemma on the elements of
  the list it returns: `AtPicks` (the picked indices are numbered without gap, by counting), `RequiredIs`,
  `DistinctIs`, `FlattenIs` (by the smallest exception), `HorizonIs`, `FutureTilesIs`, `FutureIs`, `OrderIs` (an injective
  list as long as a set has all of it) and `PlansAre` for all policies.
- `PlansAreInDueOrder`: `ReplaySpec => []DueTilesFirst`: the first use of a planned tile is no later than any use of a
  later one. `AtInOrder` (what is picked keeps its order), `FlattenCuts` (a flattened list is one part after
  the other) and `DistinctInOrder` (a tile stands where it stood first) carry it to `FutureTilesInOrder` and `FutureInOrder`.
- `PlansAreBestFirst`: `ReplaySpec => []BetterTilesFirst`. Scores are fractions with positive denominators, and a sum of
  integers is one (`TokensType`). `NotAboveTransitive` and `SoonerScoresMore` (a score grows with urgency and with the
  rest) give `BetterScoresMore`; `Descends` takes the order from neighbours to all pairs. The distance of a tile whose first use is not
  overwritten is that use, and that of any other tile is no less than its first use (`DistanceIs`), which is why only the better tile needs the exception.
- `KernelsRunOnResidentWeights`: `ReplaySpec => ComputesOnResidentWeight`. `LoopInv` relates the loops of `main` to
  the call they wait for: a call in progress serves the head of the queue, and one that has returned has left it in HBM
  (`EnsureDoes`, `CallDoes`); `BufferInv` then has its buffer.
- `PrefetchMetricsHold`: `ReplaySpec => []PrefetchMetrics`. `UsedInv`: what is prefetched has been used, is left in the
  queue, or will be required by an event to come. `FitInv`: a resident fits both budgets, so that a call for it is a hit
  and not a rejection; `HitsInv` compares the counters with the cache's, `ReportInv` what is derived from them.

These rest on the module's named assumptions: sizes are positive, budgets are naturals, the configurations consist of Boolean flags, and `NoTile` is no tile.

### Ring (`UringEngineProofs`)

- `TypesAreCorrect`: `Spec => []TypeOK`.
- `CompletionsAreLate`, `WholeTilesAreRead`, `WaitingEntriesSurvive`: `Spec =>`
  always `LateByFailedEnters`, `ReadsWholeTile`, `EntriesSurvive`. `RingInv` ties the wrapped `tail` and `head` to the
  numbers of issued and submitted requests, whose difference never exceeds the ring, and says that each
  waiting slot holds its own request; `OutstandingInv` says that at most one request is outstanding, the latest
  submitted one, and `WholeInv` follows its bytes while no submission has failed. Six lemmas about
  remainders (`ModAdd`, `ModTwice`, `ModApart`, ...) carry it over the wrap.

Assumed: the ring is not empty and divides the span of the indices, spans and bounds are naturals, tiles are
not empty.

### Sweep (`SweepProofs`)

- `FinalManifestsAreComplete`, `CommandsAreMeasured`: `Spec =>` always `FinalManifestIsComplete`, `CommandIsMeasured`.
  `DoneInv` says that every run the sweep has behind it has a successful row of this sweep's configuration, or is marked
  as adopted; a manifest is written from those rows.
- `EvidenceMatchesItsRow`: `Spec => []EvidenceMatchesRow`, from `EvidenceInv`: no server listens but the bench's own,
  markers of the runs to come are of sweeps that are over (`MarkersOfThePast`), a bench under the hook leaves a marker of its own sweep and
  one without it leaves an older one (`OwnBench`). What passes for evidence of a run behind then agrees with its row, unless
  the row was measured without the hook and adopted (`EvidenceBehind`). An operator who always resumes leaves a row measured under the hook and its
  marker together (`EvidenceKept`). It is this part that fails for the operators named above. Which sweeps are hooked is
  left open: `c_mode` may differ from sweep to sweep.
- `RowsAreKept`: `Spec => RowsStay`, an action property, from `BenchInv`: a bench starts only
  where the sweep may not skip, and beyond the first run only when the rows load.

Assumed: there is a run, the runs of system C are runs, the hooked configurations are configurations and `NoConfig` is none, sites are records of the three
habits.

### Serving hook (`HookMarkerProofs`)

- `EvidenceNeverOverCounts`: `Spec => []NeverOverCounts`. A count travels from memory
  through the buffer to the file and, in the next process, back, so `CountsWithin` bounds all
  three by the calls there have been. The file of an earlier run is excluded: it may count more, but
  `_read_marker` never returns it (`ReadMarkerWithin`). `QuietStep` covers every step
  but a call; in a call count and bound grow together.
- `SoleProcessEvidenceIsKept`: `Spec => []SoleProcessKeepsEvidence`. `SoleInv` follows what the file will say once the
  write in progress has ended (`Saved`), and `Missed` bounds the calls it lacks by the cost of the kills and
  failed flushes so far plus the calls since the last flush. A new process starts from the
  file, so what was missed moves into the cost; `ModNext` says when a count reaches the interval.

Assumed: the interval is positive and a server has finitely many processes.

### Admission and finalizer (`AdmissionProofs`)

- `PassingPlansAreShipped`, `PackagesAreFaithful`: `Spec =>` always `OnlyPassingPlansShipped`, `PackageIsFaithful`. The
  invariant `IInv` says of the copies so far that their names are different and admission's own keep theirs (`NamesInv`),
  that the first four are as their inputs are now (`CopiesInv`), that an input on which no copy has landed is copied as it was
  at the start (`InputsInv`), that the plan in memory is the file's and passed (`PlanInv`), and what is signed
  (`SignedInv`). That `UniqueName` finds a name no copy has is a pigeonhole argument (`UniqueNameIsFree`).
- `PlansAreOfOneAdmission`: `Spec => []PlansOfOneAdmission`, from `AdmissionInv`: the files an admission has passed are of its
  summary, and if the latest one was not cut short, all are of one. `SomeoneLeads` shows that a best budget exists where one is asked for.
- `AdmissionsAreByMajority`: `Spec => []AdmittedByMajority`. `EvidenceInv` says that the rows on disk are rows. The rest is about
  the operators: the k-th smallest of a finite family exists and splits it (`KthSmallestIs`), so at least half of the
  values lie on either side of a median (`MedianHalves`), and a strict win of medians separates half of one
  system's rows from half of the other's (`HeldInRows`, `WonInRows`).

Assumed: there is a workload and a budget, `Repeats` is positive, evidence is sequences of rows whose metrics are
integers or missing, and no sweep's directory is that of admission.

### Evidence (`AdmissionProofs`)

- `VerifiedGridsAreExact`: `EvidenceSpec => []VerifiedEvidenceIsExact`. `VerdictInv` says what a verdict that
  passed was given for: rows that sweeps have measured (`RowsInv`, which a merge keeps by `FlattenIs`), the report's gate
  and the tool's counts. The release has `ReleaseRows` divided by the repeats groups (`ReleaseKeysCount`, from the size of a
  product), the gate gives each of them its repeats at least (`ReleaseKeysAreCounted`), and the total then leaves
  nothing over: `ExactlyMany`, which takes the groups away one by one. Each half of the argument
  needs the other tool's check.
- `VerifiedGridsHaveHeadlines`: `EvidenceSpec => []VerifiedEvidenceHasHeadline`. The groups of the summary are exactly those of
  the grid, so each cell has one KT group (`OneBaseline`) and system and policy agree
  (`ReleaseKeysBySystem`). `HeadlineInv` says that a headline compares two groups of the summary it was read from.

Assumed: a sweep's manifest is a sequence of rows (`SweptAssumption`), and the release grid is finite, not empty, has KT and the
mode `off`, another policy, and as many rows as `RELEASE_EXPECTED_ROWS` computes (`ReleaseAssumption`).

### Plans and manifests (`PreparationProofs`)

- `TypeCorrect`: `Spec => []TypeOK`.
- `NoByteIsShared`: `Spec => []RegionsApart`. Inductive together with
  `RegionsInside` (every region ends at the end of the blob or before, so that the next one,
  which begins there, meets none) and with the sizes that validation has left. The
  lemma `AssignAtEnd` says this of one map; it covers an id that is already in it,
  because its old region is given up. That the tiles come in order is not needed.

- `DispatchIsSupported`: `HandlesSpec => []DispatchedTilesAreSupported`, where `HandlesSpec` adds the
  process that uses the manifest. `SideInv` is an invariant of the loop: what
  the manifest says of the tiles laid out so far is what the model says, if it lists no id twice.
  `HandlesInv` says that the handles are those of the finished manifest and that what was supported
  when they were built still is: a registration that loses nothing keeps it so
  (`WiderSupports`, `RegistryKeepsHandles`). `HandlesSpec => Spec`, so the first two results hold of it too.

- `TilesArePacked`: `Spec => []PackedInOrder`. `PackInv` says that every tile laid out comes before every
  one that is not, that the offsets are the totals of what is laid, and that each tile begins at the total of the
  smaller ones. When a tile is laid, the laid ones are exactly the smaller ones (`NextIsBehindLaid`).
- `ColumnsAreCoveredOnce`: `Spec => []ColumnsCoveredOnce`. Whatever the policy, the ranges of a group are
  the multiples of one width that lie below the extent, as many as there are shards (`RangesAre`), so a column within reach
  lies in one of them and no other does (`ShardOfColumn`, `RangesCover`). The model of a plan is a list folded from the
  set of its tiles, which is finite (`TilesAreFinite`), and has all of them and nothing else (`ListingHas`);
  `KeysInv` says that the manifest's ids are those of the tiles laid out.

They rest on `IdAssumption`, `MirAssumption` and `DressAssumption` (an id has six numbers, a model is a
sequence of tiles, a tile always has a dtype), and the last also on `PlanAssumption`: the sizes of a plan are
positive, as `_required_int`, `_positive_int` and `max(1, ...)` enforce.

### Checkpoint (`PreparationProofs`)

- `FilesAreInOrder`: `PrepareSpec => []WrittenInOrder`. While an export runs, the property
  says too little of the files it has not reached. `Progress` adds that those it has passed are its own
  and whole and all others older, and that no file is of an export still
  to begin. `PutKeepsOrder` is the step that puts a file in place, whole or torn.
- `PreparedArtifactsAreFaithful`: `PrepareSpec => []PreparedArtifactIsFaithful`. `CopyInv` says that while shards are
  copied each is either still to be copied, or copied and as in the checkpoint: a copy is only
  overwritten by a shard of its own base name, and of those there is one (`CopyKeepsWhole`). That no
  shard is forgotten rests on the sorted list having all of them (`SortedIs`, `TailOf`). `EndInv`
  keeps this until the tool exits.

The second assumes that a checkpoint has finitely many tensors (`CheckpointAssumption`) and that `None` is no exit code
(`NoneAssumption`).

### Deployment plans (`PreparationProofs`)

- `PlansCover`: `TuningSpec => []PlansCoverWhatTheyExpect`, in three parts.

  *Counts.* `TermsInv` follows the additions: as long as an expert's hits are at most `Exact`, its remaining terms add up to
  them exactly, and beyond that to no less than `Exact`. `SingleIs` says this of one rounding (the identity up to
  `Exact`, never below it above; that `Exact` is even decides a tie), `RoundedSum` and `AddedSum` of one addition,
  whichever two terms it takes. So the ranked counts, capped at `Exact`, are the hits, capped at `Exact` (`CappedIs`).

  *Scores.* Ranks of a layer are ordered strictly (`RanksAreOrdered`) and a rank is worth more than the
  spacing of single precision numbers, whatever the experts' own bonuses (`RoundingKeepsRanks`,
  `LowerRanksScoreHigher`), so the first n ranks are the first n scores (`FirstRanksAreKept`).

  *Coverage.* The budget's n experts of all layers (`MostCommonAreFew`) are compared with the n that each layer keeps. One of
  the former that its layer does not keep has n kept ones ahead of it there, of which one is not among the former
  (`SomeoneElseIsKept`). That one is hit as often, up to the cap, and takes its place (`ExchangeIsNoLoss`); so, one
  expert after the other, what is kept is worth as much (`KeptAreWorthMost`). For the choice under memory pressure: what is
  enough for 80 percent is enough for 70 (`PressureKeepsFewer`).

Assumed: at most 16 layers of 64 experts, for which the spacings of the scores hold (`ShapeAssumption`); single precision
numbers whose spacings double, exact up to an even number (`SingleAssumption`); and a profile that names
experts of the model, whose recorded slices add up to its hits, and budgets that are positive and finitely many (`ProfileAssumption`).

### Tile runtime (`TileRuntimeProofs`)

- `PlansStayCurrent`: `Spec => []CachedPlansAreCurrent`. `PlansAreCurrent` says it of every key that
  is in the cache instead of every request that could ask for it.
- `EveryRequestAccounted`: `Spec => []RequestsAccounted`, inductive with the types of
  the counters. There is one lemma for each thing that counts: a fallback, a launch, an answer,
  an exception, a comparison. A comparison fails for every unusable output of KT, and
  otherwise only if a backend was launched (`JudgeCounts`).
- `TilesAreMovedOnce`: `Spec => []TilesMovedOnce`. A request copies what is planned and not resident
  (`MaterializeMovesOnce`), and the bytes of two disjoint sets add up (`TotalOfUnion`). `MoveInv` adds that
  only hot tiles are resident, for which it needs that cached plans are current.

The last assumes that there are finitely many tiles, and that their sizes are naturals (`TileAssumption`).

### Only model-checked

Liveness (`ReadsEnd`, `SweepEnds`, the fairness of `TileCache` in `ImplementsTileCache`) is beyond the prover.
`TensorsReachTheirTiles` compares the parsing of tensor names with the table of names in `MCCheckpoint`: what is
checked is that table, and assuming what it says would assume the result.

## 5. What is not modelled

- The rounding of the doubles a plan's scores are computed in: the model compares exact fractions.
- Numeric kernels (`fp4_gemm.cc`, the backends' arithmetic and calibration), modelled times, and
  the formats of configuration, manifest, trace and metrics files.
- CUDA streams and events: a copy that fails is one step, so an asynchronous copy that is
  still in flight after an exception (`src/queues.cc:53`) is not seen.
- The ring's constructor, and the hook's own backend launches.
- The contents of commands and prompts, the environment probe (a choice), and the
  bench's statistics and sampler thread. The bench writes constants for fallbacks and dtypes into its
  rows (`tilepo/sweep.py:724`), so what the probe saw of them never reaches a report.
- Labels, reasons and layout of reports; routes and schedules of the machine IR;
  parsers of plans, configurations and environment; two command line tools that run at the same
  time on one directory.
- Entropy and churn of a profile, which choose only the dtype of one plan, and cache sizes.
- Runtime aliases and the command line of the server that a prepared checkpoint is served by.
- The `*_for_test` hooks.

## 6. Plan

Done, in this order: memory manager and its abstract cache; scheduler and replay; ring; hook
marker; tile runtime and patch; sweep and bench; proofs of the memory manager; admission and
finalizer; plans and manifests, with proofs of the layout; handles and registry; checkpoint
preparation, with a proof of the order of its files; evidence; profiles and deployment plans;
proofs of the hook's evidence and of the tile runtime; proofs of the memory manager's budgets,
leaks and refinement, of the replay, its plans and their order, of the ring, the sweep, the sole hook process, admission and finalizer,
of the copies of a prepared checkpoint and of the handles; proofs of the cutting and packing of plans and
of the bytes the tile runtime moves; proofs of what verified evidence contains and of what deployment
plans cover.

Next modules: the hook's backend launches, composed with `TileRuntime`; streams and events of
`H2DQueue`, composed with `MemoryManager`; the ring's constructor.

Next theorems: what the modules above will promise. Of the safety properties that are checked now, all but
`TensorsReachTheirTiles` are proved.
