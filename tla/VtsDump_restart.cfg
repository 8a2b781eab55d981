SPECIFICATION Spec
CONSTANTS
  Workers = {w1, w2}
  Keys = {"a", "a and 256 bytes", "256 bytes"}
  KeyLen <- MCKeyLen
  Stem <- MCStem
  Capacity = 2
  dump_period = 0
  Null = Null
  MaxRequests = 1
  MaxRemovals = 0
  MaxCrashes = 1
  MaxErrors = 0
  MaxRestarts = 1
  MaxStops = 2
  MaxRecords = 2
  MaxTime = 1
SYMMETRY Symmetric
INVARIANTS GracefulExact RestartKeeps NoInvention
CHECK_DEADLOCK FALSE
