SPECIFICATION Spec
CONSTANTS
  QLEN = 4
  Modulus = 4
  Bounds <- MCBounds
  Period = 1
  Requests = {"quick", "slow"}
  Status <- MCStatus
  Length <- MCLength
  Sent <- MCSent
  Msec <- MCMsec
  MaxRequests = 6
  MaxResets = 1
  MaxTime = 3
INVARIANTS TypeOK TotalsExact HistogramConsistent RearIsNewest AveragesRecent
PROPERTIES ImplementsWindow
