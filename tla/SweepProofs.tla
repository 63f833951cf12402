----------------------------- MODULE SweepProofs -----------------------------
(***************************************************************************)
(* Proofs about Sweep, for every number of runs, sweeps and failures and   *)
(* every set of sites.                                                     *)
(***************************************************************************)
EXTENDS Sweep, FiniteSetTheorems, FunctionTheorems, TLAPS

USE RunsAssumption, ConfigAssumption, SiteAssumption
USE DEF Habit, ServersSurvive, RowsMayTear

-----------------------------------------------------------------------------
\* A sweep is between its start and its end.
Walking == pc \in {"next", "serve", "stop", "row", "checkpoint"}

\* The bench of the current run is at work.
Benching == pc \in {"serve", "stop", "row"}

\* The runs the sweep in progress has behind it.
Done == {r \in Runs : r < current \/ (pc = "checkpoint" /\ r = current)}

Statuses == {"absent", "torn", "success", "error"}

RowType == [status : Statuses, by : Nat, config : Configs \union {NoConfig}]

ServerType == [by : Nat, config : Configs \union {NoConfig}]

MarkerType == [exists : BOOLEAN, id : Nat, probe : BOOLEAN]

\* The types of the state, and where a sweep may stand.
StateType ==
  /\ pc \in {"off", "failed", "next", "serve", "stop", "row", "checkpoint"}
  /\ sweep \in Nat /\ site \in Sites /\ skip \in BOOLEAN
  /\ config \in Configs \union {NoConfig} /\ (pc # "off" => config \in Configs)
  /\ current \in 1 .. LastRun + 1
  /\ pc \in {"serve", "stop", "row", "checkpoint"} => current \in Runs
  /\ ids \in [Runs -> Nat] /\ skipped \subseteq Runs
  /\ measured \in RowType
  /\ pc \in {"stop", "row"} => measured.status \in {"success", "error"}
  /\ rows \in [Runs -> RowType]
  /\ markers \in [Runs -> MarkerType]
  /\ ports \in [Runs -> ServerType]

\* Every run behind the sweep has a successful row, measured by what this
\* sweep asks for or marked as adopted.
DoneInv ==
  /\ Walking => \A r \in Done :
       /\ rows[r].status = "success"
       /\ rows[r].config = config \/ r \in skipped
  /\ pc \in {"stop", "row"} => measured.config = config

\* A bench is started only where the sweep may not skip, and beyond the first
\* run only when the rows on disk load.
BenchInv ==
  /\ Walking => skip \in Habit
  /\ Benching => ~(skip /\ rows[current].status = "success")
  /\ Walking /\ current > 1 => RowsLoad

\* Under a steady habit and without surviving servers.
SteadySite == Habit # BOOLEAN /\ ~ServersSurvive

\* A probe in the marker of a run of system C.
Proven(r) == r \in SystemC /\ markers[r].probe

\* No server listens but the one of the bench in progress.
PortsOfBench == \A r \in Runs :
  ports[r] = IF pc \in {"serve", "stop"} /\ r = current
             THEN Server(sweep, config) ELSE NoServer

\* No marker is of a sweep to come, and those of runs to come are of sweeps
\* that are over.
MarkersOfThePast ==
  /\ \A r \in Runs : markers[r].id <= sweep
  /\ Walking => \A r \in Runs \ Done :
       ~(Benching /\ r = current) => markers[r].id < sweep

\* The bench in progress measures its own server.  Under a hooked sweep a probe
\* is of it; without the hook the marker stays that of an earlier sweep.
OwnBench ==
  /\ Benching /\ Proven(current) =>
       IF config \in HookConfigs THEN markers[current].id = sweep
                                 ELSE markers[current].id < sweep
  /\ pc \in {"stop", "row"} => measured.by = sweep

\* The rows that any evidence of a run agrees with.
HookedRow(r) == rows[r].config \in HookConfigs

\* The runs to come have the ids of the sweep; what passes for evidence of a
\* run behind agrees with its row, unless an unhooked row has been adopted.
EvidenceBehind ==
  Walking =>
    /\ \A r \in Runs \ Done : ids[r] = sweep
    /\ \A r \in Done : Proven(r) /\ markers[r].id = ids[r] =>
         markers[r].id = rows[r].by \/ (r \in skipped /\ ~HookedRow(r))

\* An operator who always resumes leaves a successful row and its marker alone.
EvidenceKept ==
  Habit = {TRUE} => \A r \in Runs :
    Proven(r) /\ rows[r].status = "success" /\ HookedRow(r) =>
      markers[r].id = rows[r].by

EvidenceInv ==
  SteadySite => /\ PortsOfBench /\ MarkersOfThePast /\ OwnBench
                /\ EvidenceBehind /\ EvidenceKept

-----------------------------------------------------------------------------
(* The inductive invariant *)

IInv == StateType /\ DoneInv /\ BenchInv /\ EvidenceInv

\* The rows and markers that are written are rows and markers.
LEMMA RowsAreRows ==
  /\ NoRow \in RowType /\ Torn \in RowType
  /\ \A s \in Statuses, by \in Nat, c \in Configs : Row(s, by, c) \in RowType
  /\ "success" \in Statuses /\ "error" \in Statuses
BY DEF NoRow, Torn, Row, RowType, Statuses

LEMMA MarkersAreMarkers ==
  /\ NoMarker \in MarkerType
  /\ \A e \in BOOLEAN, i \in Nat, p \in BOOLEAN :
       [exists |-> e, id |-> i, probe |-> p] \in MarkerType
BY DEF NoMarker, MarkerType

LEMMA ServersAreServers ==
  /\ NoServer \in ServerType /\ NoServer.by = 0
  /\ \A by \in Nat, c \in Configs : Server(by, c) \in ServerType
  /\ \A by, c : Server(by, c).by = by /\ Server(by, c).config = c
BY DEF NoServer, Server, ServerType

LEMMA InitIInv == Init => IInv
<1> SUFFICES ASSUME Init PROVE IInv
  OBVIOUS
<1> USE DEF Init
<1>1. StateType
  <2>1. /\ rows \in [Runs -> RowType] /\ measured \in RowType
        /\ markers \in [Runs -> MarkerType] /\ ports \in [Runs -> ServerType]
    BY RowsAreRows, MarkersAreMarkers, ServersAreServers
  <2>2. current \in 1 .. LastRun + 1
    OBVIOUS
  <2>3. QED
    BY <2>1, <2>2 DEF StateType
<1>2. DoneInv /\ BenchInv
  BY DEF DoneInv, BenchInv, Walking, Benching
<1>3. EvidenceInv
  <2>1. ports = [r \in Runs |-> NoServer] /\ pc = "off"
    OBVIOUS
  <2>2. \A r \in Runs : markers[r].id = 0 /\ rows[r].status = "absent"
    BY DEF NoMarker, NoRow, Row
  <2> HIDE DEF Init
  <2>3. sweep = 0
    BY DEF Init
  <2>4. PortsOfBench /\ MarkersOfThePast
    BY <2>1, <2>2, <2>3 DEF PortsOfBench, MarkersOfThePast, Walking, Benching
  <2>5. OwnBench /\ EvidenceBehind
    BY <2>1 DEF OwnBench, EvidenceBehind, Walking, Benching
  <2>6. EvidenceKept
    BY <2>2 DEF EvidenceKept
  <2>7. QED
    BY <2>4, <2>5, <2>6 DEF EvidenceInv
<1>4. QED
  BY <1>1, <1>2, <1>3 DEF IInv

\* The marker a hooked launch leaves: without an id when the bootstrap fails.
LEMMA LaunchMarks ==
  ASSUME StateType, Launch, Hooked
  PROVE  \E marker \in MarkerType :
           /\ markers' = [markers EXCEPT ![current] = marker]
           /\ marker.probe => marker.id = ids[current]
           /\ marker.id \in {0, ids[current]}
<1>1. PICK booted \in BOOLEAN : markers' = [markers EXCEPT ![current] =
        [exists |-> TRUE, id |-> IF booted THEN ids[current] ELSE 0, probe |-> booted]]
  BY DEF Launch
<1>2. ids[current] \in Nat
  BY DEF StateType, Launch, Runs
<1>3. CASE booted
  <2>1. markers' = [markers EXCEPT ![current] =
          [exists |-> TRUE, id |-> ids[current], probe |-> TRUE]]
    BY <1>1, <1>3
  <2>2. [exists |-> TRUE, id |-> ids[current], probe |-> TRUE] \in MarkerType
    BY <1>2, MarkersAreMarkers
  <2>3. QED
    BY <2>1, <2>2
<1>4. CASE ~booted
  <2>1. markers' = [markers EXCEPT ![current] =
          [exists |-> TRUE, id |-> 0, probe |-> FALSE]]
    BY <1>1, <1>4
  <2>2. [exists |-> TRUE, id |-> 0, probe |-> FALSE] \in MarkerType
    BY MarkersAreMarkers
  <2>3. QED
    BY <2>1, <2>2
<1>5. QED
  BY <1>3, <1>4

LEMMA SiteStays == [Next]_vars => site' = site
BY DEF Next, StartSweep, StartBlocked, DryRun, SweepStep, Skip, Launch, Measure,
       MeasureFails, StopServer, WriteRow, TearRow, Checkpoint,
       CheckpointRaises, Finish, GiveUp, Crash, sweepVars, vars

LEMMA StateTypeStep == StateType /\ [Next]_vars => StateType'
<1> SUFFICES ASSUME StateType, [Next]_vars
             PROVE  StateType'
  OBVIOUS
<1>0. /\ Habit \in SUBSET BOOLEAN
      /\ current \in Runs <=> current <= LastRun
      /\ current \in Runs => current + 1 \in 1 .. LastRun + 1
      /\ 1 \in 1 .. LastRun + 1
  BY DEF StateType, Runs
<1>a. pc # "off" => config \in Configs
  BY DEF StateType
<1> USE RowsAreRows, MarkersAreMarkers, ServersAreServers
    DEF StateType, sweepVars, listVars, diskVars
<1>1. CASE StartSweep
  BY <1>0, <1>1 DEF StartSweep
<1>2. CASE StartBlocked \/ DryRun
  BY <1>2 DEF StartBlocked, DryRun
<1>3. CASE Skip
  <2>1. AdoptedId(current) \in Nat
    BY <1>0, <1>3 DEF Skip, AdoptedId, MarkerType
  <2>2. QED
    BY <1>0, <1>3, <2>1 DEF Skip
<1>4. CASE Launch
  <2>1. ids[current] \in Nat /\ current \in Runs
    BY <1>0, <1>4 DEF Launch
  <2>2. markers' \in [Runs -> MarkerType]
    <3>1. CASE Hooked
      <4>1. PICK marker \in MarkerType : markers' = [markers EXCEPT ![current] = marker]
        BY <1>4, <3>1, LaunchMarks
      <4>2. markers \in [Runs -> MarkerType]
        OBVIOUS
      <4>3. QED
        BY ONLY <4>1, <4>2
    <3>2. CASE ~Hooked
      BY <1>4, <3>2 DEF Launch
    <3>3. QED
      BY <3>1, <3>2
  <2>3. ports' \in [Runs -> ServerType]
    <3>1. Server(sweep, config) \in ServerType
      BY <1>a, <1>4 DEF Launch
    <3>2. QED
      BY <1>4, <3>1 DEF Launch
  <2>4. QED
    BY <1>0, <1>4, <2>1, <2>2, <2>3 DEF Launch
<1>5. CASE Measure \/ MeasureFails
  <2>1. pc = "serve" /\ current \in Runs /\ ports[current].by \in Nat
        /\ config \in Configs
    BY <1>a, <1>5 DEF Measure, MeasureFails, ServerType
  <2>2. \A s \in {"success", "error"} :
          /\ Row(s, ports[current].by, config) \in RowType
          /\ Row(s, ports[current].by, config).status = s
    <3>1. \A s \in Statuses : Row(s, ports[current].by, config) \in RowType
      BY <2>1, RowsAreRows
    <3>2. QED
      BY <3>1 DEF Row, Statuses
  <2>3. measured' \in RowType /\ measured'.status \in {"success", "error"}
    BY <1>5, <2>2 DEF Measure, MeasureFails
  <2>4. markers' \in [Runs -> MarkerType]
    <3>1. [exists |-> TRUE, id |-> ports[current].by, probe |-> FALSE]
            \in MarkerType
      BY <2>1, MarkersAreMarkers
    <3>2. QED
      BY <1>5, <3>1, <2>1 DEF Measure, MeasureFails
  <2>5. QED
    BY <1>5, <2>1, <2>3, <2>4 DEF Measure, MeasureFails
<1>6. CASE StopServer
  BY <1>6 DEF StopServer
<1>7. CASE WriteRow \/ TearRow
  BY <1>7 DEF WriteRow, TearRow
<1>8. CASE Checkpoint \/ CheckpointRaises \/ Finish \/ GiveUp
  BY <1>0, <1>8 DEF Checkpoint, CheckpointRaises, Finish, GiveUp
<1>9. CASE Crash
  BY <1>9 DEF Crash
<1>10. CASE UNCHANGED vars
  BY <1>10 DEF vars
<1>11. QED
  BY <1>1, <1>2, <1>3, <1>4, <1>5, <1>6, <1>7, <1>8, <1>9, <1>10
  DEF Next, SweepStep

LEMMA DoneInvStep == StateType /\ DoneInv /\ [Next]_vars => DoneInv'
<1> SUFFICES ASSUME StateType, DoneInv, [Next]_vars
             PROVE  DoneInv'
  OBVIOUS
<1> USE DEF DoneInv, Walking, Done, Runs, sweepVars, listVars, diskVars
<1>0. /\ current \in Nat /\ rows \in [Runs -> RowType]
      /\ pc \in {"next", "serve", "stop", "row", "checkpoint"} => current >= 1
  BY DEF StateType
<1>1. CASE StartSweep \/ StartBlocked \/ DryRun
  BY <1>0, <1>1 DEF StartSweep, StartBlocked, DryRun
<1>2. CASE Skip
  BY <1>0, <1>2 DEF Skip, ExistingSuccess
<1>3. CASE Launch \/ StopServer
  BY <1>0, <1>3 DEF Launch, StopServer
<1>4. CASE Measure \/ MeasureFails
  BY <1>0, <1>4 DEF Measure, MeasureFails, Row
<1>5. CASE WriteRow \/ TearRow
  BY <1>0, <1>5 DEF WriteRow, TearRow
<1>6. CASE Checkpoint \/ CheckpointRaises \/ Finish \/ GiveUp
  BY <1>0, <1>6 DEF Checkpoint, CheckpointRaises, Finish, GiveUp
<1>7. CASE Crash
  BY <1>7 DEF Crash
<1>8. CASE UNCHANGED vars
  BY <1>8 DEF vars
<1>9. QED
  BY <1>1, <1>2, <1>3, <1>4, <1>5, <1>6, <1>7, <1>8 DEF Next, SweepStep

LEMMA BenchInvStep ==
  StateType /\ DoneInv /\ BenchInv /\ [Next]_vars => BenchInv'
<1> SUFFICES ASSUME StateType, DoneInv, BenchInv, [Next]_vars
             PROVE  BenchInv'
  OBVIOUS
<1> USE DEF BenchInv, Walking, Benching, RowsLoad, Runs, sweepVars, listVars,
            diskVars
<1>0. /\ current \in 1 .. LastRun + 1 /\ rows \in [Runs -> RowType]
      /\ site' = site
      /\ pc \in {"stop", "row"} => measured.status \in {"success", "error"}
  BY SiteStays DEF StateType
<1>1. CASE StartSweep \/ StartBlocked \/ DryRun
  BY <1>0, <1>1 DEF StartSweep, StartBlocked, DryRun
<1>2. CASE Skip
  BY <1>0, <1>2 DEF Skip
<1>3. CASE Launch
  BY <1>0, <1>3 DEF Launch, ExistingSuccess
<1>4. CASE Measure \/ MeasureFails \/ StopServer
  BY <1>0, <1>4 DEF Measure, MeasureFails, StopServer
<1>5. CASE WriteRow \/ TearRow
  BY <1>0, <1>5 DEF WriteRow, TearRow
<1>6. CASE Checkpoint \/ CheckpointRaises \/ Finish \/ GiveUp
  BY <1>0, <1>6 DEF Checkpoint, CheckpointRaises, Finish, GiveUp
<1>7. CASE Crash
  BY <1>7 DEF Crash
<1>8. CASE UNCHANGED vars
  BY <1>8 DEF vars
<1>9. QED
  BY <1>1, <1>2, <1>3, <1>4, <1>5, <1>6, <1>7, <1>8 DEF Next, SweepStep

LEMMA EvidenceInvStep == IInv /\ [Next]_vars => EvidenceInv'
<1>0. [Next]_vars => (SteadySite' <=> SteadySite)
  BY SiteStays DEF SteadySite
<1> SUFFICES ASSUME IInv, [Next]_vars, SteadySite
             PROVE  /\ PortsOfBench' /\ MarkersOfThePast' /\ OwnBench'
                    /\ EvidenceBehind' /\ EvidenceKept'
  BY <1>0 DEF EvidenceInv
<1>a. /\ current \in Nat /\ current >= 1 /\ sweep \in Nat
      /\ current \in Runs <=> current <= LastRun
      /\ \A r \in Runs : r \in Nat /\ r >= 1
      /\ \A r \in Runs : ids[r] \in Nat
      /\ \A r \in Runs : markers[r].id \in Nat /\ markers[r].probe \in BOOLEAN
      /\ rows \in [Runs -> RowType] /\ ports \in [Runs -> ServerType]
      /\ markers \in [Runs -> MarkerType] /\ ids \in [Runs -> Nat]
      /\ pc \in {"serve", "stop", "row", "checkpoint"} => current \in Runs
      /\ Habit \in SUBSET BOOLEAN /\ skip \in BOOLEAN
      /\ measured.status \in Statuses
      /\ pc \in {"off", "failed", "next", "serve", "stop", "row", "checkpoint"}
  <2>1. StateType
    BY DEF IInv
  <2> HIDE DEF IInv
  <2>2. \A r \in Runs : r \in Nat /\ r >= 1
    BY DEF Runs
  <2>3. /\ current \in Nat /\ current >= 1
        /\ current \in Runs <=> current <= LastRun
    BY <2>1 DEF StateType, Runs
  <2>4. \A r \in Runs : markers[r].id \in Nat /\ markers[r].probe \in BOOLEAN
    BY <2>1 DEF StateType, MarkerType
  <2>5. measured.status \in Statuses
    BY <2>1 DEF StateType, RowType
  <2>6. Habit \in SUBSET BOOLEAN
    BY <2>1 DEF StateType
  <2>7. QED
    BY <2>1, <2>2, <2>3, <2>4, <2>5, <2>6 DEF StateType
<1>b. site' = site /\ Habit # BOOLEAN /\ ~ServersSurvive
  BY SiteStays DEF SteadySite
<1>c. /\ PortsOfBench /\ MarkersOfThePast /\ OwnBench /\ EvidenceBehind
      /\ EvidenceKept
  BY DEF IInv, EvidenceInv
<1>d. BenchInv /\ DoneInv
  BY DEF IInv
<1>e. NoServer.by = 0 /\ \A by, c : Server(by, c).by = by
  BY ServersAreServers
<1> HIDE DEF IInv, SteadySite
<1> USE DEF PortsOfBench, MarkersOfThePast, OwnBench, EvidenceBehind,
            EvidenceKept, Proven, HookedRow, Walking, Benching, Done,
            sweepVars, listVars, diskVars
<1>1. CASE StartSweep
  <2>0. /\ pc = "off" /\ pc' = "next" /\ sweep' = sweep + 1 /\ UNCHANGED rows
    BY <1>1 DEF StartSweep
  <2>1. \A r \in Runs : r \notin Done'
    <3>1. pc' = "next" /\ current' = 1
      BY <1>1 DEF StartSweep
    <3>2. QED
      BY <3>1, <1>a
  <2>2. \A r \in Runs : ids'[r] = sweep' /\ markers'[r] = markers[r]
    BY <1>1 DEF StartSweep
  <2>3. \A r \in Runs : ports'[r] = NoServer
    BY <1>1, <1>c DEF StartSweep
  <2>4. PortsOfBench' /\ MarkersOfThePast'
    BY <2>0, <2>1, <2>2, <2>3, <1>a, <1>c
  <2>5. OwnBench' /\ EvidenceBehind'
    BY <2>0, <2>1, <2>2
  <2>6. EvidenceKept'
    BY <2>0, <2>2, <1>b, <1>c
  <2>7. QED
    BY <2>4, <2>5, <2>6
<1>2. CASE StartBlocked \/ DryRun
  <2>1. /\ pc = "off" /\ pc' = "off" /\ sweep' = sweep + 1
        /\ UNCHANGED <<current, ids, rows, markers, ports>>
    BY <1>2 DEF StartBlocked, DryRun
  <2>2. \A r \in Runs : ports[r] = NoServer
    BY <2>1, <1>c
  <2>3. PortsOfBench' /\ MarkersOfThePast'
    BY <2>1, <2>2, <1>a, <1>c
  <2>4. OwnBench' /\ EvidenceBehind'
    BY <2>1
  <2>5. EvidenceKept'
    BY <2>1, <1>b, <1>c
  <2>6. QED
    BY <2>3, <2>4, <2>5
<1>3. CASE Skip
  <2>1. /\ pc = "next" /\ pc' = "checkpoint" /\ current \in Runs
        /\ UNCHANGED <<sweep, config, skip, current, measured, rows, markers, ports>>
        /\ skip /\ rows[current].status = "success"
        /\ skipped' = skipped \union {current}
    BY <1>3, <1>a DEF Skip, ExistingSuccess
  <2>2. \A r \in Runs : r # current => ids'[r] = ids[r]
    BY <1>3, <1>a DEF Skip
  <2>3. Habit = {TRUE}
    BY <2>1, <1>a, <1>b, <1>d DEF BenchInv
  <2>4. PortsOfBench' /\ MarkersOfThePast' /\ OwnBench'
    BY <2>1, <1>a, <1>c
  <2>5. EvidenceBehind'
    BY <2>1, <2>2, <2>3, <1>a, <1>c
  <2>6. EvidenceKept'
    BY <2>1, <1>b, <1>c
  <2>7. QED
    BY <2>4, <2>5, <2>6
<1>4. CASE Launch
  <2>1. /\ pc = "next" /\ pc' = "serve" /\ current \in Runs
        /\ UNCHANGED <<sweep, config, skip, current, ids, skipped, measured, rows>>
        /\ ~(skip /\ rows[current].status = "success")
    BY <1>4, <1>a DEF Launch, ExistingSuccess
  <2>2. \A r \in Runs :
          ports'[r] = IF r = current THEN Server(sweep, config) ELSE NoServer
    BY <1>4, <1>a, <1>c, <2>1 DEF Launch
  <2>3. \A r \in Runs : r # current => markers'[r] = markers[r]
    BY <1>4, <1>a DEF Launch
  <2>4. ids[current] = sweep /\ markers[current].id < sweep
    BY <2>1, <1>a, <1>c
  <2>5. /\ Proven(current)' =>
             IF config \in HookConfigs THEN markers'[current].id = sweep
                                       ELSE markers'[current].id < sweep
        /\ markers'[current].id \in Nat /\ markers'[current].id <= sweep
    <3>1. CASE Hooked
      <4>1. PICK marker \in MarkerType :
              /\ markers' = [markers EXCEPT ![current] = marker]
              /\ marker.probe => marker.id = ids[current]
              /\ marker.id \in {0, ids[current]}
        <5>1. StateType
          BY DEF IInv
        <5>2. QED
          BY <1>4, <3>1, <5>1, LaunchMarks
      <4>2. config \in HookConfigs /\ markers'[current] = marker
        BY <2>1, <3>1, <4>1, <1>a DEF Hooked
      <4>3. marker.id \in Nat /\ marker.id <= sweep
        BY <2>4, <4>1, <1>a
      <4>4. marker.probe => marker.id = sweep
        BY <2>4, <4>1
      <4>5. current' = current
        BY <2>1
      <4>6. QED
        BY ONLY <4>2, <4>3, <4>4, <4>5 DEF Proven
    <3>2. CASE ~Hooked
      <4>1. markers' = markers
        BY <1>4, <3>2 DEF Launch
      <4>2. Proven(current)' => config \notin HookConfigs
        BY <3>2, <2>1 DEF Hooked
      <4>3. markers[current].id \in Nat /\ markers[current].id <= sweep
        BY <2>1, <1>a, <1>c
      <4>4. QED
        BY ONLY <2>4, <4>1, <4>2, <4>3
    <3>3. QED
      BY <3>1, <3>2
  <2>6. Habit = {TRUE} => rows[current].status # "success"
    BY <2>1, <1>d DEF BenchInv
  <2>7. PortsOfBench' /\ MarkersOfThePast'
    BY <2>1, <2>2, <2>3, <2>5, <1>a, <1>c
  <2>8. OwnBench'
    BY <2>1, <2>5
  <2>9. EvidenceBehind'
    BY <2>1, <2>3, <1>a, <1>c
  <2>10. EvidenceKept'
    BY <2>1, <2>3, <2>6, <1>a, <1>b, <1>c
  <2>11. QED
    BY <2>7, <2>8, <2>9, <2>10
<1>5. CASE Measure \/ MeasureFails
  <2>1. /\ pc = "serve" /\ pc' = "stop" /\ current \in Runs
        /\ UNCHANGED <<sweep, config, skip, current, ids, skipped, rows, ports>>
        /\ measured'.by = ports[current].by
    BY <1>5, <1>a DEF Measure, MeasureFails, Row
  <2>2. ports[current].by = sweep
    BY <2>1, <1>c, <1>e
  <2>3. UNCHANGED markers
    BY <1>5, <2>2 DEF Measure, MeasureFails
  <2>4. PortsOfBench' /\ MarkersOfThePast' /\ OwnBench'
    BY <2>1, <2>2, <2>3, <1>a, <1>c
  <2>5. EvidenceBehind' /\ EvidenceKept'
    BY <2>1, <2>3, <1>a, <1>b, <1>c
  <2>6. QED
    BY <2>4, <2>5
<1>6. CASE StopServer
  <2>1. /\ pc = "stop" /\ pc' = "row" /\ current \in Runs
        /\ UNCHANGED <<sweep, config, skip, current, ids, skipped, rows, markers, measured>>
    BY <1>6, <1>a DEF StopServer
  <2>2. \A r \in Runs : ports'[r] = NoServer
    <3>1. ports' = [ports EXCEPT ![current] =
                      IF ports[current].by = sweep THEN NoServer ELSE ports[current]]
      BY <1>6 DEF StopServer
    <3>2. /\ ports[current].by = sweep
          /\ \A r \in Runs : r # current => ports[r] = NoServer
      BY <2>1, <1>c, <1>e
    <3>3. ports \in [Runs -> ServerType]
      BY <1>a
    <3>4. QED
      BY ONLY <3>1, <3>2, <3>3
  <2>3. PortsOfBench' /\ MarkersOfThePast' /\ OwnBench'
    BY <2>1, <2>2, <1>a, <1>c
  <2>4. EvidenceBehind' /\ EvidenceKept'
    BY <2>1, <1>a, <1>b, <1>c
  <2>5. QED
    BY <2>3, <2>4
<1>7. CASE WriteRow
  <2>1. /\ pc = "row" /\ pc' \in {"checkpoint", "failed"} /\ current \in Runs
        /\ UNCHANGED <<sweep, config, skip, current, ids, skipped, markers, ports, measured>>
    BY <1>7, <1>a DEF WriteRow
  <2>2. /\ rows'[current] = measured
        /\ \A r \in Runs : r # current => rows'[r] = rows[r]
    BY <1>7, <2>1, <1>a DEF WriteRow
  <2>3. measured.by = sweep /\ measured.config = config /\ ids[current] = sweep
    BY <2>1, <1>a, <1>c, <1>d DEF DoneInv
  <2>4. Proven(current) => IF config \in HookConfigs THEN markers[current].id = sweep
                                                     ELSE markers[current].id < sweep
    BY <2>1, <1>c
  <2>5. PortsOfBench' /\ MarkersOfThePast' /\ OwnBench'
    BY <2>1, <1>a, <1>c
  <2>6. EvidenceBehind'
    BY <2>1, <2>2, <2>3, <2>4, <1>a, <1>c
  <2>7. EvidenceKept'
    BY <2>1, <2>2, <2>3, <2>4, <1>a, <1>b, <1>c
  <2>8. QED
    BY <2>5, <2>6, <2>7
<1>8. CASE TearRow
  <2>1. /\ pc = "row" /\ pc' = "failed" /\ current \in Runs
        /\ UNCHANGED <<sweep, config, skip, current, ids, markers, ports, measured>>
    BY <1>8, <1>a DEF TearRow
  <2>2. /\ rows'[current].status = "torn"
        /\ \A r \in Runs : r # current => rows'[r] = rows[r]
    BY <1>8, <2>1, <1>a DEF TearRow, Torn, Row
  <2>3. PortsOfBench' /\ MarkersOfThePast' /\ OwnBench' /\ EvidenceBehind'
    BY <2>1, <1>a, <1>c
  <2>4. EvidenceKept'
    BY <2>1, <2>2, <1>b, <1>c
  <2>5. QED
    BY <2>3, <2>4
<1>9. CASE Checkpoint
  <2>1. /\ pc = "checkpoint" /\ pc' = "next" /\ current' = current + 1
        /\ UNCHANGED <<sweep, config, skip, ids, skipped, markers, ports, measured, rows>>
    BY <1>9 DEF Checkpoint
  <2>2. \A r \in Runs : r \in Done' <=> r \in Done
    BY <2>1, <1>a
  <2>3. PortsOfBench' /\ MarkersOfThePast' /\ OwnBench'
    BY <2>1, <2>2, <1>a, <1>c
  <2>4. EvidenceBehind' /\ EvidenceKept'
    BY <2>1, <2>2, <1>b, <1>c
  <2>5. QED
    BY <2>3, <2>4
<1>10. CASE CheckpointRaises \/ Finish \/ GiveUp
  <2>1. /\ pc \in {"checkpoint", "next", "failed"} /\ pc' \in {"failed", "off"}
        /\ UNCHANGED <<sweep, config, current, ids, skipped, markers, ports, rows>>
    BY <1>10 DEF CheckpointRaises, Finish, GiveUp
  <2>2. PortsOfBench' /\ MarkersOfThePast'
    BY <2>1, <1>a, <1>c
  <2>3. OwnBench' /\ EvidenceBehind' /\ EvidenceKept'
    BY <2>1, <1>b, <1>c
  <2>4. QED
    BY <2>2, <2>3
<1>11. CASE Crash
  <2>1. /\ pc' = "off"
        /\ UNCHANGED <<sweep, skip, current, ids, markers, measured>>
    BY <1>11 DEF Crash
  <2>2. \A r \in Runs : ports'[r] = NoServer
    <3>1. ports' = [r \in Runs |-> IF ports[r].by = sweep THEN NoServer ELSE ports[r]]
      BY <1>11, <1>b DEF Crash
    <3>2. \A r \in Runs : ports[r] = NoServer \/ ports[r].by = sweep
      BY <1>c, <1>e
    <3>3. QED
      BY <3>1, <3>2
  <2>3. \A r \in Runs : rows'[r] = rows[r] \/ rows'[r].status = "absent"
    BY <1>11, <1>a DEF Crash, NoRow, Row
  <2>4. PortsOfBench' /\ MarkersOfThePast' /\ OwnBench' /\ EvidenceBehind'
    BY <2>1, <2>2, <1>a, <1>c
  <2>5. EvidenceKept'
    BY <2>1, <2>3, <1>b, <1>c
  <2>6. QED
    BY <2>4, <2>5
<1>12. CASE UNCHANGED vars
  <2>1. UNCHANGED <<pc, sweep, config, current, ids, skipped, measured, rows, markers, ports>>
    BY <1>12 DEF vars
  <2>2. PortsOfBench' /\ MarkersOfThePast' /\ OwnBench'
    BY <2>1, <1>c
  <2>3. EvidenceBehind' /\ EvidenceKept'
    BY <2>1, <1>b, <1>c
  <2>4. QED
    BY <2>2, <2>3
<1>13. QED
  BY <1>1, <1>2, <1>3, <1>4, <1>5, <1>6, <1>7, <1>8, <1>9, <1>10, <1>11, <1>12
  DEF Next, SweepStep

LEMMA NextIInv == IInv /\ [Next]_vars => IInv'
BY StateTypeStep, DoneInvStep, BenchInvStep, EvidenceInvStep DEF IInv

LEMMA IInvAlways == Spec => []IInv
BY InitIInv, NextIInv, PTL DEF Spec

-----------------------------------------------------------------------------
(* What a manifest says *)

\* Only these steps write rows into the manifest.
LEMMA ManifestStep ==
  ASSUME [Next]_vars
  PROVE  \/ UNCHANGED manifest
         \/ manifest'.rows = {} /\ manifest'.kind \in {"blocked", "simulated"}
         \/ pc = "checkpoint" /\ manifest' = Manifest("checkpoint")
         \/ pc = "next" /\ current > LastRun /\ manifest' = Manifest("final")
BY DEF Next, StartSweep, StartBlocked, DryRun, SweepStep, Skip, Launch, Measure,
       MeasureFails, StopServer, WriteRow, TearRow, Checkpoint,
       CheckpointRaises, Finish, GiveUp, Crash, diskVars, vars

\* One row per run, when every run has one.
LEMMA OneRowPerRun ==
  ASSUME \A r \in Runs : rows[r].status = "success"
  PROVE  /\ {m.run : m \in LoadedRows} = Runs
         /\ Cardinality(LoadedRows) = LastRun
         /\ \A m \in LoadedRows : m.row.status = "success"
<1> DEFINE entry == [r \in Runs |->
                       [run |-> r, row |-> rows[r], command |-> config,
                        skipped |-> r \in skipped, probe |-> Probe(r),
                        evidence |-> markers[r].id]]
<1>1. LoadedRows = {entry[r] : r \in Runs}
  BY DEF LoadedRows
<1>2. \A r \in Runs : entry[r].run = r /\ entry[r].row = rows[r]
  OBVIOUS
<1> HIDE DEF entry
<1>3. entry \in Bijection(Runs, LoadedRows)
  <2>1. entry \in [Runs -> LoadedRows]
    BY <1>1 DEF entry
  <2>2. QED
    BY <1>1, <1>2, <2>1, Fun_IsBij
<1>4. Cardinality(LoadedRows) = LastRun
  <2>1. IsFiniteSet(Runs) /\ Cardinality(Runs) = LastRun
    BY FS_Interval DEF Runs
  <2>2. ExistsBijection(Runs, LoadedRows)
    BY <1>3 DEF ExistsBijection
  <2>3. QED
    BY <2>1, <2>2, FS_Bijection
<1>5. {m.run : m \in LoadedRows} = Runs
  BY <1>1, <1>2
<1>6. QED
  BY <1>1, <1>2, <1>4, <1>5

\* What is loaded of a run.
LEMMA LoadedIsOfARun ==
  \A m \in LoadedRows : \E r \in Runs :
    /\ m.row = rows[r] /\ m.command = config /\ m.skipped = (r \in skipped)
    /\ m.probe = Probe(r) /\ m.evidence = markers[r].id
BY DEF LoadedRows

\* Every run has a successful row when the last is behind the sweep.
LEMMA AllDone ==
  ASSUME IInv, pc = "next", current > LastRun
  PROVE  \A r \in Runs : /\ rows[r].status = "success"
                         /\ rows[r].config = config \/ r \in skipped
BY DEF IInv, StateType, DoneInv, Walking, Done, Runs

\* A final manifest has one row per run, each a success, however many sweeps
\* crashed, failed, resumed or were replaced before.
THEOREM FinalManifestsAreComplete == Spec => []FinalManifestIsComplete
<1>1. Init => FinalManifestIsComplete
  BY DEF Init, FinalManifestIsComplete
<1>2. IInv /\ FinalManifestIsComplete /\ [Next]_vars => FinalManifestIsComplete'
  <2> SUFFICES ASSUME IInv, FinalManifestIsComplete, [Next]_vars,
                      manifest'.kind = "final", manifest' # manifest
               PROVE  FinalManifestIsComplete'
    BY DEF FinalManifestIsComplete
  <2>1. /\ pc = "next" /\ current > LastRun /\ manifest' = Manifest("final")
    BY ManifestStep DEF Manifest
  <2>2. manifest'.rows = LoadedRows
    BY <2>1 DEF Manifest
  <2>3. QED
    BY <2>1, <2>2, AllDone, OneRowPerRun DEF FinalManifestIsComplete
<1>3. QED
  BY <1>1, <1>2, IInvAlways, PTL DEF Spec

\* In a final manifest every row was measured by the command it is listed with
\* or is marked as adopted.
THEOREM CommandsAreMeasured == Spec => []CommandIsMeasured
<1>1. Init => CommandIsMeasured
  BY DEF Init, CommandIsMeasured
<1>2. IInv /\ CommandIsMeasured /\ [Next]_vars => CommandIsMeasured'
  <2> SUFFICES ASSUME IInv, CommandIsMeasured, [Next]_vars,
                      manifest'.kind = "final", manifest' # manifest
               PROVE  CommandIsMeasured'
    BY DEF CommandIsMeasured
  <2>1. /\ pc = "next" /\ current > LastRun /\ manifest' = Manifest("final")
    BY ManifestStep DEF Manifest
  <2>2. manifest'.rows = LoadedRows
    BY <2>1 DEF Manifest
  <2>3. QED
    <3>1. \A r \in Runs : rows[r].config = config \/ r \in skipped
      BY <2>1, AllDone
    <3>2. \A m \in LoadedRows : m.row.config = m.command \/ m.skipped
      BY <3>1, LoadedIsOfARun
    <3>3. QED
      BY <2>2, <3>2 DEF CommandIsMeasured
<1>3. QED
  BY <1>1, <1>2, IInvAlways, PTL DEF Spec

\* What passes for hook evidence in a manifest, checkpoint or final, is of the
\* server that was measured for that row, whatever c_mode each sweep has; a row
\* that was measured without the hook and adopted is the one exception.
THEOREM EvidenceMatchesItsRow == Spec => []EvidenceMatchesRow
<1>1. Init => EvidenceMatchesRow
  BY DEF Init, EvidenceMatchesRow
<1>2. IInv /\ EvidenceMatchesRow /\ [Next]_vars => EvidenceMatchesRow'
  <2> SUFFICES ASSUME IInv, EvidenceMatchesRow, [Next]_vars, SteadySite
               PROVE  \A m \in manifest'.rows : m.probe = "success" =>
                        m.evidence = m.row.by
                          \/ (m.skipped /\ m.row.config \notin HookConfigs)
    BY SiteStays DEF EvidenceMatchesRow, SteadySite
  <2>1. CASE UNCHANGED manifest \/ manifest'.rows = {}
    BY <2>1 DEF EvidenceMatchesRow, SteadySite
  <2>2. CASE manifest'.rows = LoadedRows /\ pc \in {"checkpoint", "next"}
    <3>1. ASSUME NEW r \in Runs, Probe(r) = "success"
          PROVE  markers[r].id = rows[r].by
                   \/ (r \in skipped /\ rows[r].config \notin HookConfigs)
      <4>1. Proven(r) /\ markers[r].id = ids[r]
        BY <3>1 DEF Probe, Proven
      <4>2. r \in Done
        BY <2>2, <4>1
        DEF IInv, StateType, EvidenceInv, MarkersOfThePast, EvidenceBehind,
            MarkerType, Walking, Benching
      <4>3. QED
        <5>1. Walking /\ EvidenceBehind
          BY <2>2 DEF IInv, EvidenceInv, Walking
        <5>2. QED
          BY ONLY <4>1, <4>2, <5>1 DEF EvidenceBehind, HookedRow
    <3>2. ASSUME NEW m \in LoadedRows, m.probe = "success"
          PROVE  m.evidence = m.row.by
                   \/ (m.skipped /\ m.row.config \notin HookConfigs)
      <4>1. PICK r \in Runs :
              /\ m.row = rows[r] /\ m.skipped = (r \in skipped)
              /\ m.probe = Probe(r) /\ m.evidence = markers[r].id
        BY LoadedIsOfARun
      <4>2. CASE markers[r].id = rows[r].by
        BY ONLY <4>1, <4>2
      <4>3. CASE r \in skipped /\ rows[r].config \notin HookConfigs
        BY ONLY <4>1, <4>3, Zenon
      <4>4. QED
        BY <3>1, <3>2, <4>1, <4>2, <4>3
    <3>3. QED
      BY <2>2, <3>2
  <2>3. QED
    BY <2>1, <2>2, ManifestStep DEF Manifest
<1>3. QED
  BY <1>1, <1>2, IInvAlways, PTL DEF Spec

\* Resumed sweeps never touch a successful row, and no sweep repairs a torn
\* row of a run but the first.
THEOREM RowsAreKept == Spec => RowsStay
<1> DEFINE Kept == \A r \in Runs :
             (Habit = {TRUE} /\ rows[r].status = "success")
               \/ (r > 1 /\ rows[r] = Torn) => rows'[r] = rows[r]
<1>1. IInv /\ [Next]_vars => [Kept]_vars
  <2> SUFFICES ASSUME IInv, [Next]_vars, NEW r \in Runs, rows'[r] # rows[r]
               PROVE  /\ ~(Habit = {TRUE} /\ rows[r].status = "success")
                      /\ ~(r > 1 /\ rows[r] = Torn)
    OBVIOUS
  <2>1. Benching /\ r = current
    BY DEF IInv, StateType, Next, StartSweep, StartBlocked, DryRun, SweepStep,
           Skip, Launch, Measure, MeasureFails, StopServer, WriteRow, TearRow,
           Checkpoint, CheckpointRaises, Finish, GiveUp, Crash, diskVars, vars,
           Benching
  <2>2. ~(Habit = {TRUE} /\ rows[r].status = "success")
    <3>1. skip \in Habit /\ ~(skip /\ rows[r].status = "success")
      BY <2>1 DEF IInv, BenchInv, Benching, Walking
    <3>2. skip \in BOOLEAN
      BY DEF IInv, StateType
    <3>3. Habit = {TRUE} => skip
      BY <3>1, <3>2
    <3>4. QED
      BY <3>1, <3>3
  <2>3. ~(r > 1 /\ rows[r] = Torn)
    <3>1. r > 1 => rows[r].status # "torn"
      BY <2>1 DEF IInv, BenchInv, Benching, Walking, RowsLoad
    <3>2. QED
      BY <3>1 DEF Torn, Row
  <2>4. QED
    BY <2>2, <2>3
<1>2. QED
  BY <1>1, IInvAlways, PTL DEF Spec, RowsStay

=============================================================================
