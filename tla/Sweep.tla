-------------------------------- MODULE Sweep --------------------------------
(***************************************************************************)
(* Benchmark sweeps into one output directory (src/tilepo/sweep.py and     *)
(* src/tools/openai_varprompt_bench).  A sweep walks a list of runs.  For  *)
(* each it starts the bench, which starts a server, measures it, stops it  *)
(* and writes one row; after each run the sweep rewrites its manifest from *)
(* all the rows and markers it finds.  Sweeps crash and are repeated, and  *)
(* with --skip-existing-success they adopt rows of earlier sweeps.         *)
(*                                                                         *)
(* File names, ports and markers depend on the run alone, so sweeps share  *)
(* them: not on the budget, the input or the c_mode a sweep is asked for.  *)
(* The run ids are new in every sweep.  A sweep is known by its number,    *)
(* which stands for the run ids it makes and for the servers it starts.    *)
(* What a marker says is modelled in detail in HookMarker.                 *)
(***************************************************************************)
EXTENDS Integers, FiniteSets

CONSTANTS
  LastRun,          \* runs are 1..LastRun, in the order of the sweep
  SystemC,          \* runs of system C
  Configs,          \* arguments that are in the commands, not in file names
  HookConfigs,      \* those with c_mode "hook"; the others have "kt_native"
  NoConfig,         \* no arguments: before the first sweep
  Sites,            \* the conditions under study
  MaxSweeps,        \* bound on the number of sweeps
  MaxFaults         \* bound on crashes, errors and torn rows

Runs == 1 .. LastRun

ASSUME RunsAssumption == LastRun \in Nat \ {0} /\ SystemC \subseteq Runs
ASSUME ConfigAssumption == HookConfigs \subseteq Configs /\ NoConfig \notin Configs
ASSUME SiteAssumption ==
  Sites \subseteq [skips : SUBSET BOOLEAN, orphans : BOOLEAN, tears : BOOLEAN]

VARIABLES
  pc,        \* where the sweep in progress stands; "off" if there is none
  sweep,     \* number of the latest sweep
  config,    \* its arguments
  site,      \* the conditions all sweeps of the directory run under
  skip,      \* skip_existing_success of the latest sweep
  current,   \* the run it is at
  ids,       \* run["run_id"] of its command runs
  skipped,   \* its runs with skipped_existing set
  measured,  \* what the bench in progress has measured
  rows,      \* the .jsonl files
  markers,   \* the .tilepo_bootstrap.json files
  ports,     \* the server that listens on a run's port
  manifest,  \* tilepo_sweep_manifest.json
  faults     \* injected so far

sweepVars == <<sweep, config, site, skip>>
listVars == <<current, ids, skipped>>
diskVars == <<rows, markers, ports, manifest>>
vars == <<pc, sweepVars, listVars, measured, diskVars, faults>>

\* The values the operator gives the skip flag.
Habit == site.skips

\* Whether a crash may leave the server's session running.
ServersSurvive == site.orphans

\* Whether writing a row may fail half-way (disk full).
RowsMayTear == site.tears

\* by is the sweep whose server was measured, config what that sweep asked for.
Row(status, by, asked) == [status |-> status, by |-> by, config |-> asked]
NoRow == Row("absent", 0, NoConfig)
Torn == Row("torn", 0, NoConfig)

\* A server of the sweep `by`, which asked for it with those arguments.
Server(by, asked) == [by |-> by, config |-> asked]
NoServer == Server(0, NoConfig)

NoMarker == [exists |-> FALSE, id |-> 0, probe |-> FALSE]

Init ==
  /\ pc = "off"
  /\ sweep = 0 /\ config = NoConfig /\ skip = FALSE
  /\ site \in Sites
  /\ current = 1 /\ ids = [r \in Runs |-> 0] /\ skipped = {}
  /\ measured = NoRow
  /\ rows = [r \in Runs |-> NoRow]
  /\ markers = [r \in Runs |-> NoMarker]
  /\ ports = [r \in Runs |-> NoServer]
  /\ manifest = [kind |-> "none", rows |-> {}]
  /\ faults = 0

Fault ==
  /\ faults < MaxFaults
  /\ faults' = faults + 1

-----------------------------------------------------------------------------
\* A row that does not parse makes json.loads raise.
RowsLoad == \A r \in Runs : rows[r].status # "torn"

\* Mutant: the run id of the marker is not compared.
ProbeOfAnyRun(r) ==
  IF r \notin SystemC \/ ~markers[r].exists THEN "none"
  ELSE IF ~markers[r].probe THEN "missing"
  ELSE "success"

\* _load_hot_backend_probe: whatever the c_mode of this sweep, and of the sweep
\* that measured the row.
Probe(r) ==
  IF r \notin SystemC \/ ~markers[r].exists THEN "none"
  ELSE IF markers[r].id # ids[r] THEN "stale_run_id"
  ELSE IF ~markers[r].probe THEN "missing"
  ELSE "success"

\* _load_real_rows: every row on disk, whichever sweep it is of, labelled with
\* the command of this sweep.
LoadedRows ==
  {[run |-> r, row |-> rows[r], command |-> config, skipped |-> r \in skipped,
    probe |-> Probe(r), evidence |-> markers[r].id] :
     r \in {q \in Runs : rows[q].status \in {"success", "error"}}}

Manifest(kind) == [kind |-> kind, rows |-> LoadedRows]

-----------------------------------------------------------------------------
\* run_sweep: the command runs get new run ids.
StartSweep ==
  /\ pc = "off" /\ sweep < MaxSweeps
  /\ sweep' = sweep + 1
  /\ config' \in Configs
  /\ skip' \in Habit
  /\ current' = 1
  /\ ids' = [r \in Runs |-> sweep + 1]
  /\ skipped' = {}
  /\ pc' = "next"
  /\ UNCHANGED <<site, measured, diskVars, faults>>

\* The environment is not ready: with --require-real, or when memory is short,
\* the manifest, also a finished one, is replaced by one without rows;
\* otherwise the sweep raises before it writes anything.
StartBlocked ==
  /\ pc = "off" /\ sweep < MaxSweeps
  /\ Fault
  /\ sweep' = sweep + 1
  /\ \/ manifest' = [kind |-> "blocked", rows |-> {}]
     \/ UNCHANGED manifest
  /\ UNCHANGED <<pc, config, site, skip, listVars, measured, rows, markers,
                 ports>>

\* Without --execute nothing is run, and a manifest of no or of made-up rows
\* replaces whatever is there.
DryRun ==
  /\ pc = "off" /\ sweep < MaxSweeps
  /\ sweep' = sweep + 1
  /\ manifest' = [kind |-> "simulated", rows |-> {}]
  /\ UNCHANGED <<pc, config, site, skip, listVars, measured, rows, markers,
                 ports, faults>>

\* Mutant: any row counts as a success.
ExistingSuccessOfAnyRow(r) == rows[r].status \notin {"absent", "torn"}

\* Mutant: a row counts only if this sweep has asked for the same.
ExistingSuccessIfSameConfig(r) ==
  rows[r].status = "success" /\ rows[r].config = config

\* _mark_existing_success; a row that does not parse is not a success.
ExistingSuccess(r) == rows[r].status = "success"

\* The run id of the marker is adopted, when it has one.
AdoptedId(r) ==
  IF markers[r].exists /\ markers[r].id # 0 THEN markers[r].id ELSE ids[r]

\* Mutant: skipped_existing is not set.
SkipUnmarked ==
  /\ pc = "next" /\ current <= LastRun
  /\ skip /\ ExistingSuccess(current)
  /\ ids' = [ids EXCEPT ![current] = AdoptedId(current)]
  /\ pc' = "checkpoint"
  /\ UNCHANGED <<sweepVars, current, skipped, measured, diskVars, faults>>

Skip ==
  /\ pc = "next" /\ current <= LastRun
  /\ skip /\ ExistingSuccess(current)
  /\ ids' = [ids EXCEPT ![current] = AdoptedId(current)]
  /\ skipped' = skipped \union {current}
  /\ pc' = "checkpoint"
  /\ UNCHANGED <<sweepVars, current, measured, diskVars, faults>>

\* The environment of the bench's server names the marker.
Hooked == current \in SystemC /\ config \in HookConfigs

\* The bench starts the server.  If an older one holds the port the new one
\* cannot listen, but its processes have run the bootstrap by then, which
\* replaces a marker of another run.  The bootstrap may fail, too.
Launch ==
  /\ pc = "next" /\ current <= LastRun
  /\ ~(skip /\ ExistingSuccess(current))
  /\ ports' = [ports EXCEPT ![current] =
       IF @ = NoServer THEN Server(sweep, config) ELSE @]
  /\ IF Hooked
     THEN \E booted \in BOOLEAN :
            markers' = [markers EXCEPT ![current] =
              [exists |-> TRUE, id |-> IF booted THEN ids[current] ELSE 0,
               probe |-> booted]]
     ELSE UNCHANGED markers
  /\ pc' = "serve"
  /\ UNCHANGED <<sweepVars, listVars, measured, rows, manifest, faults>>

\* Whoever listens on the port is measured: wait_for_server and the requests
\* do not look at the process the bench has started.  A hooked server of
\* another sweep that flushes replaces the marker by one with its own run id.
Measure ==
  /\ pc = "serve"
  /\ measured' = Row("success", ports[current].by, config)
  /\ \/ UNCHANGED markers
     \/ /\ current \in SystemC /\ ports[current].by # sweep
        /\ ports[current].config \in HookConfigs
        /\ markers' = [markers EXCEPT ![current] =
             [exists |-> TRUE, id |-> ports[current].by, probe |-> FALSE]]
  /\ pc' = "stop"
  /\ UNCHANGED <<sweepVars, listVars, rows, ports, manifest, faults>>

\* The server is not ready in time, or a request fails.
MeasureFails ==
  /\ pc = "serve"
  /\ Fault
  /\ measured' = Row("error", ports[current].by, config)
  /\ pc' = "stop"
  /\ UNCHANGED <<sweepVars, listVars, diskVars>>

\* stop_process_group ends the server this bench has started, and no other.
StopServer ==
  /\ pc = "stop"
  /\ ports' = [ports EXCEPT ![current] =
       IF @.by = sweep THEN NoServer ELSE @]
  /\ pc' = "row"
  /\ UNCHANGED <<sweepVars, listVars, measured, rows, markers, manifest,
                 faults>>

\* The bench exits with 1 after an error, and check=True ends the sweep.
WriteRow ==
  /\ pc = "row"
  /\ rows' = [rows EXCEPT ![current] = measured]
  /\ pc' = IF measured.status = "success" THEN "checkpoint" ELSE "failed"
  /\ UNCHANGED <<sweepVars, listVars, measured, markers, ports, manifest,
                 faults>>

\* The row is cut off, and the bench raises.
TearRow ==
  /\ pc = "row" /\ RowsMayTear
  /\ Fault
  /\ rows' = [rows EXCEPT ![current] = Torn]
  /\ pc' = "failed"
  /\ UNCHANGED <<sweepVars, listVars, measured, markers, ports, manifest>>

\* Mutant: the sweep does not go on.
CheckpointStays ==
  /\ pc = "checkpoint"
  /\ RowsLoad
  /\ manifest' = Manifest("checkpoint")
  /\ pc' = "next"
  /\ UNCHANGED <<sweepVars, listVars, measured, rows, markers, ports, faults>>

Checkpoint ==
  /\ pc = "checkpoint"
  /\ RowsLoad
  /\ manifest' = Manifest("checkpoint")
  /\ current' = current + 1
  /\ pc' = "next"
  /\ UNCHANGED <<sweepVars, ids, skipped, measured, rows, markers, ports,
                 faults>>

CheckpointRaises ==
  /\ pc = "checkpoint"
  /\ ~RowsLoad
  /\ pc' = "failed"
  /\ UNCHANGED <<sweepVars, listVars, measured, diskVars, faults>>

\* Every checkpoint has loaded the rows, so loading them again does not raise.
Finish ==
  /\ pc = "next" /\ current > LastRun
  /\ manifest' = Manifest("final")
  /\ pc' = "off"
  /\ UNCHANGED <<sweepVars, listVars, measured, rows, markers, ports, faults>>

\* The tool exits with the exception; a checkpoint is all that is left.
GiveUp ==
  /\ pc = "failed"
  /\ pc' = "off"
  /\ UNCHANGED <<sweepVars, listVars, measured, diskVars, faults>>

\* Sweep and bench are killed.  The server has a session of its own.  A row
\* that was being written may be left empty, which reads like no row.
Crash ==
  /\ pc \notin {"off", "failed"}
  /\ Fault
  /\ pc' = "off"
  /\ \/ UNCHANGED rows
     \/ pc = "row" /\ rows' = [rows EXCEPT ![current] = NoRow]
  /\ \/ ServersSurvive /\ UNCHANGED ports
     \/ ports' = [r \in Runs |->
                    IF ports[r].by = sweep THEN NoServer ELSE ports[r]]
  /\ UNCHANGED <<sweepVars, listVars, measured, markers, manifest>>

SweepStep ==
  \/ Skip
  \/ Launch
  \/ Measure
  \/ MeasureFails
  \/ StopServer
  \/ WriteRow
  \/ TearRow
  \/ Checkpoint
  \/ CheckpointRaises
  \/ Finish
  \/ GiveUp

Next == StartSweep \/ StartBlocked \/ DryRun \/ SweepStep \/ Crash

\* A sweep is straight-line code whose waits are bounded by timeouts.
Spec == Init /\ [][Next]_vars /\ WF_vars(SweepStep)

-----------------------------------------------------------------------------
\* A final manifest has exactly one row per run and all of them succeeded,
\* whatever earlier sweeps left in the directory and however they ended.
FinalManifestIsComplete ==
  manifest.kind = "final" =>
    /\ {m.run : m \in manifest.rows} = Runs
    /\ Cardinality(manifest.rows) = LastRun
    /\ \A m \in manifest.rows : m.row.status = "success"

\* A row and the hook evidence joined to it come from one server, as long as
\* the operator does not alternate sweeps with and without the skip flag and
\* no server outlives its sweep: otherwise a marker of a sweep that died in
\* mid-run meets the row of the sweep before it.  The exception is an adopted
\* row that was measured without the hook: adopting it takes the run id of
\* whatever marker a hooked sweep that failed before has left, and so takes
\* that sweep's probe for the row's.
EvidenceMatchesRow ==
  Habit # BOOLEAN /\ ~ServersSurvive =>
    \A m \in manifest.rows : m.probe = "success" =>
      m.evidence = m.row.by \/ (m.skipped /\ m.row.config \notin HookConfigs)

\* In a final manifest the command of a row is the one that was measured,
\* unless the row is marked as adopted; an adopted row may have been measured
\* with other arguments, because the file names do not carry them.
CommandIsMeasured ==
  manifest.kind = "final" =>
    \A m \in manifest.rows : m.row.config = m.command \/ m.skipped

\* An operator who always resumes never measures a run twice and never loses a
\* row: no later sweep, crash or error touches a successful row.  And whatever
\* the habit, a torn row of any run but the first is never repaired: every
\* later sweep raises at its first checkpoint, before it gets to that run.
RowsStay ==
  [][\A r \in Runs :
       (Habit = {TRUE} /\ rows[r].status = "success") \/ (r > 1 /\ rows[r] = Torn)
         => rows'[r] = rows[r]]_vars

\* Every sweep ends.
SweepEnds == pc # "off" ~> pc = "off"

=============================================================================
