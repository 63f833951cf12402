\* Three hot tiles of two experts and a cold one; every routing below.
CONSTANTS
  a1 = a1
  a2 = a2
  b1 = b1
  c1 = c1
  ea = ea
  eb = eb
  ec = ec
  Tiles <- MCTiles
  HotTiles <- MCHotTiles
  Experts <- MCExperts
  ExpertOf <- MCExpertOf
  Bytes <- MCBytes
  Topks <- MCTopks
  Priority <- MCPriority
  CalibrationGate = TRUE
  MaxRuns = 4
SPECIFICATION Spec
INVARIANT CachedPlansAreCurrent
INVARIANT TilesMovedOnce
INVARIANT RequestsAccounted
\* The bound on the requests ends the run.
CHECK_DEADLOCK FALSE
