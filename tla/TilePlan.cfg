\* All plans, all specs, and all hand-written models.
CONSTANTS
  Plans <- MCPlans
  Specs <- MCSpecs
  Mirs <- MCMirs
  Ids <- MCIds
  Dresses <- MCDresses
  Capabilities <- MCCapabilities
  MaxCalls = 3
SPECIFICATION HandlesSpec
INVARIANT RegionsApart
INVARIANT ColumnsCoveredOnce
INVARIANT PackedInOrder
INVARIANT DispatchedTilesAreSupported
\* A manifest that is built, or rejected, is the end.
CHECK_DEADLOCK FALSE
