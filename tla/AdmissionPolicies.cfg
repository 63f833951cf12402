\* Rows of two placement policies at one budget, one admission.
CONSTANTS
  Missing = missing
  Workloads <- MCWorkloads
  Experts <- MCExperts
  Repeats = 2
  WinPercent = 3
  Policy = "throughput"
  RequireBf16 = TRUE
  Sources <- MCSources
  Outs = {"package"}
  FirstEvidence <- TwoPolicies
  LaterEvidence = {}
  MaxSweeps = 0
  MaxAdmissions = 1
  MaxReleases = 0
  MaxCrashes = 0
  Tools = {"admission"}
  Sweeps = {"s1", "s2"}
  SweepManifests <- MCSweepManifests
  MergeLists <- MCMergeLists
  Requests <- MCRequests
  Release <- MCRelease
  ReleaseRows = 6
  MaxSteps = 0
SPECIFICATION MCSpec
INVARIANT BestObservedPolicyChosen
CHECK_DEADLOCK FALSE
