SPECIFICATION Spec
CONSTANTS
  Workers = {w1, w2}
  Locs = {l1}
  Keys = {"srv", "fa", "fb"}
  TypeOf <- MCTypeOf
  HashOf <- MCHash
  LongKeys = {}
  Slots = {s1, s2}
  filter_max_node = 1
  MaxNodeMatch <- MCMatch
  Requests <- MCServerFilter
  Null = Null
  MaxRequests = 3
  MaxControls = 1
  MaxCrashes = 1
  MaxOom = 0
  MaxTime = 1
SYMMETRY Symmetric
INVARIANTS TypeOK Mutex NeverOvercounts ExactUntilRemoval
PROPERTIES ImplementsStatStore
CHECK_DEADLOCK FALSE
