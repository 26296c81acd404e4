\* Two models of the catalog, one of them too big, and one of the swarm only.
CONSTANTS
  Names = {"small", "big", "swarm"}
  Catalog = {"small", "big"}
  Fits = {"small", "swarm"}
  MaxInstalls = 2
  MaxRefresh = 3
SPECIFICATION PickerSpec
INVARIANTS SwarmRowsKnown NothingVanishes InstalledIsListed
CHECK_DEADLOCK FALSE
