\* Both kinds of site, with resumed, crashed and failed sweeps.
CONSTANTS
  hook = hook
  native = native
  LastRun = 2
  SystemC = {1, 2}
  Configs <- MCConfigs
  HookConfigs = {hook}
  NoConfig = none
  Sites <- AllSites
  MaxSweeps = 4
  MaxFaults = 2
SPECIFICATION Spec
INVARIANT FinalManifestIsComplete
INVARIANT EvidenceMatchesRow
INVARIANT CommandIsMeasured
PROPERTY RowsStay
PROPERTY SweepEnds
\* The bounds on the sweeps end the run.
CHECK_DEADLOCK FALSE
