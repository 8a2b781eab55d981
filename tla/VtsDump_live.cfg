SPECIFICATION FairSpec
CONSTANTS
  Workers = {w1, w2}
  Keys = {"a"}
  KeyLen <- MCKeyLen
  Stem <- MCStem
  Capacity = 2
  dump_period = 0
  Null = Null
  MaxRequests = 1
  MaxRemovals = 0
  MaxCrashes = 1
  MaxErrors = 1
  MaxRestarts = 0
  MaxStops = 2
  MaxRecords = 2
  MaxTime = 1
PROPERTIES DumpCompletes DumpHappens
CHECK_DEADLOCK FALSE
