SPECIFICATION PhaseSpec
CONSTANTS
  Keys <- MCKeys
  Slots = {s1, s2}
  Hash <- MCHash
  RuleSets <- MCRuleSets
  Upstreams <- MCUpstreams
  MaxCount = 2
  MaxChanges = 3
  NoSlot = NoSlot
  NoKey = NoKey
  Workers = {w1, w2}
  Requests <- MCRequests
  UpstreamBlocks <- MCBlocks
  HttpFilters <- MCHttpFilters
  LocFilters <- MCLocFilters
  HttpLimits <- MCHttpLimits
  LocLimits <- MCLocLimits
  HttpFilterLimits <- MCHttpFilterLimits
  LocFilterLimits <- MCLocFilterLimits
  W = 8
  MaxServed = 4
  MaxFails = 1
INVARIANTS RefusedWhenOver SetValueOfKey SetWhenKnown
