\* Every policy, every trace of three events, and some of four.
CONSTANTS
  l0e0 = l0e0
  l0e1 = l0e1
  l1e0 = l1e0
  l1e1 = l1e1
  TraceLength = 3
  NoTile = NoTile
  Tiles <- MCTiles
  TileOrder <- MCOrder
  Size <- MCSize
  LayerOf <- MCLayer
  ExpertOf <- MCExpert
  Lookahead = 2
  Unset = 2
  DramBudget = 30
  HbmBudget = 20
  Setups <- MCSetups
  MaxCalls = 100
  MaxFaults = 1
  Traces <- MCTraces
SPECIFICATION ReplaySpec
INVARIANT PlanIsUpcoming
INVARIANT DueTilesFirst
INVARIANT BetterTilesFirst
INVARIANT PrefetchMetrics
PROPERTY ComputesOnResidentWeight
\* The process ends.
CHECK_DEADLOCK FALSE
