CONSTANTS
  Layers = 3
  Ranges <- MCOneRange
  Kept <- MCOneRange
  Pulls = {p1, p2}
  Size <- MCSize3
  MaxConcurrent = 1
  Statuses = {200, 206}
  Units = {"good", "bad"}
  MaxJobs = 2
  MaxCrashes = 1
SPECIFICATION Spec
INVARIANT ListedIsFetched
PROPERTIES LoneFetchPlacesWhole PullEnds
CHECK_DEADLOCK FALSE
