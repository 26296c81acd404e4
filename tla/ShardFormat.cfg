CONSTANTS
  Files <- MCFiles
  HostRanges <- MCRanges
SPECIFICATION FormatSpec
INVARIANTS HopRunsItsLayers StoredRangeStitches
CHECK_DEADLOCK FALSE
