SPECIFICATION Spec
CONSTANTS
  Workers = {w1, w2}
  Locs = {l1}
  Keys = {"srv", "fa", "fb", "fc"}
  TypeOf <- MCTypeOf
  HashOf <- MCHashCollide
  LongKeys = {"fc"}
  Slots = {s1, s2, s3}
  filter_max_node = 2
  MaxNodeMatch <- MCMatch
  Requests <- MCFilters
  Null = Null
  MaxRequests = 3
  MaxControls = 1
  MaxCrashes = 1
  MaxOom = 2
  MaxTime = 0
SYMMETRY Symmetric
INVARIANTS UniqueNodes SlabAccounted FilterBound
CHECK_DEADLOCK FALSE
