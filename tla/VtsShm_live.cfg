SPECIFICATION FairSpec
CONSTANTS
  Workers = {w1, w2}
  Locs = {l1}
  Keys = {"srv", "ups", "fa"}
  TypeOf <- MCTypeOf
  HashOf <- MCHash
  LongKeys = {}
  Slots = {s1, s2}
  filter_max_node = 1
  MaxNodeMatch <- MCMatch
  Requests <- MCServerUpstream
  Null = Null
  MaxRequests = 3
  MaxControls = 0
  MaxCrashes = 1
  MaxOom = 0
  MaxTime = 0
PROPERTIES LogCompletes
CHECK_DEADLOCK FALSE
