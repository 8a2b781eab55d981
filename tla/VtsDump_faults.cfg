SPECIFICATION Spec
CONSTANTS
  Workers = {w1, w2}
  Keys = {"a", "b"}
  KeyLen <- MCKeyLen
  Stem <- MCStem
  Capacity = 1
  dump_period = 0
  Null = Null
  MaxRequests = 1
  MaxRemovals = 1
  MaxCrashes = 0
  MaxErrors = 1
  MaxRestarts = 1
  MaxStops = 2
  MaxRecords = 2
  MaxTime = 1
SYMMETRY Symmetric
INVARIANTS TypeOK RestartKeeps NoInvention
CHECK_DEADLOCK FALSE
