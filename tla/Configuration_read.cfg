SPECIFICATION ConfigurationSpec
CONSTANTS
  Names = {a, b}
  Sizes = {s1, s2}
  MaxZones = 2
  MaxPools = 5
  Order <- MCOrder
  Parent <- MCParent
  Crc <- MCCrc
  HashModulus = 8
  RuleSlots <- Checks
  RuleValues <- MCRuleValues
  Rules <- MCRules
  MaxRules = 4
  ScalarSlots <- MCScalarSlots
  ScalarValues <- MCScalarValues
  ScalarRules <- MCScalarRules
  Dumps = {"none", "30s", "invalid"}
  MaxNodes = {"16", "invalid"}
  MaxScalars = 3
INVARIANTS TypeOK PoolsHeld TreeInZone RulesKeptOnce NearestWins
PROPERTY ReloadKeepsTree
