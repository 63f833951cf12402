\* MemoryManager against the abstract cache, failures and retries included.
CONSTANTS
  a = a
  b = b
  c = c
  d = d
  big = big
  NoTile = NoTile
  Tiles <- MCTiles
  Size <- MCSize
  DramBudget = 3
  HbmBudget = 2
  Setups <- Catching
  MaxCalls = 5
  MaxFaults = 2
SPECIFICATION RefinementSpec
PROPERTY ImplementsTileCache
\* MaxCalls bounds the number of calls.
CHECK_DEADLOCK FALSE
