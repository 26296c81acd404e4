CONSTANTS
  Layers = 2
  Ranges <- MCRanges
  Kept <- MCOneRange
  Pulls = {p1}
  Size <- MCSize
  MaxConcurrent = 2
  Statuses = {200, 206}
  Units = {"good", "bad"}
  MaxJobs = 2
  MaxCrashes = 1
SPECIFICATION Spec
INVARIANT ListedIsRunnable
CHECK_DEADLOCK FALSE
