\* All evidence, all package directories; a sweep, two admissions, two
\* finalizations and a crash in any order.  Or five steps of the evidence
\* tools.
CONSTANTS
  Missing = missing
  Workloads <- MCWorkloads
  Experts <- MCExperts
  Repeats = 2
  WinPercent = 3
  Policy = "balanced"
  RequireBf16 = TRUE
  Sources <- MCSources
  Outs <- MCOuts
  FirstEvidence <- MCFirstEvidence
  LaterEvidence <- MCLaterEvidence
  MaxSweeps = 1
  MaxAdmissions = 2
  MaxReleases = 2
  MaxCrashes = 1
  Tools = {"admission", "evidence"}
  Sweeps = {"s1", "s2"}
  SweepManifests <- MCSweepManifests
  MergeLists <- MCMergeLists
  Requests <- MCRequests
  Release <- MCRelease
  ReleaseRows = 6
  MaxSteps = 5
SPECIFICATION MCSpec
INVARIANT OnlyPassingPlansShipped
INVARIANT PlansOfOneAdmission
INVARIANT PackageIsFaithful
INVARIANT AdmittedByMajority
INVARIANT VerifiedEvidenceIsExact
INVARIANT VerifiedEvidenceHasHeadline
\* The bounds on the runs of the tools end the run.
CHECK_DEADLOCK FALSE
