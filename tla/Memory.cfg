\* Both policies, with a caller that calls again and with one that stops.
CONSTANTS
  a = a
  b = b
  c = c
  d = d
  big = big
  NoTile = NoTile
  Tiles <- MCTiles
  Size <- MCSize
  DramBudget = 3
  HbmBudget = 2
  Setups <- AllSetups
  MaxCalls = 5
  MaxFaults = 2
SPECIFICATION Spec
INVARIANT PoolsWithinBudget
INVARIANT ResidentBuffersLive
INVARIANT Inclusion
INVARIANT LeaksBoundedByFaults
INVARIANT RecencyOrder
INVARIANT NeverStarvedWithoutFault
\* The replay exits on an exception, and MaxCalls bounds the number of calls.
CHECK_DEADLOCK FALSE
