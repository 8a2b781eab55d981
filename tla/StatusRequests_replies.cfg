SPECIFICATION RequestSpec
CONSTANTS
  Keys <- MCKeys
  Capacity = 3
  Uris <- MCUris
  conf_format = "HTML"
  Enable = TRUE
  Ooms <- MCOoms
  ControlOoms <- MCControlOoms
  Lens <- MCLens
  Upstreams <- MCUpstreams
  NameOrder <- MCNameOrder
  Buckets <- MCBuckets
  metrics_size = 4
  Enabled <- MCEnabled
  Zones <- MCZones
  Groups <- MCGroups
  MaxCount = 2
  MaxChanges = 1
INVARIANTS JsonNests PrometheusComplete RepliesShow RepliesCounted ControlSelects
