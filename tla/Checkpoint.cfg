\* Three exports into one directory, one of them cut short.
CONSTANTS
  Checkpoints <- MCCheckpoints
  Selections <- MCSelections
  All = All
  None = None
  Lowercase <- MCLowercase
  Numerals <- MCNumerals
  TileExtent = 2
  TileShards = 2
  MaxExports = 3
  MaxBreaks = 1
SPECIFICATION PrepareSpec
INVARIANT WrittenInOrder
INVARIANT PreparedArtifactIsFaithful
INVARIANT TensorsReachTheirTiles
\* MaxExports ends the use of the directory.
CHECK_DEADLOCK FALSE
