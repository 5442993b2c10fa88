\* Liveness of one scan under one fault.
SPECIFICATION FairSpec
CONSTANTS
  s1 = s1
  s2 = s2
  s3 = s3
  x1 = x1
  x2 = x2
  Scans = {s1}
  Slots = {x1, x2}
  Kind <- OneScheduled
  MaxAttempts = 2
  MaxStalled = 1
  MaxRecovery = 2
  MaxClaims = 1
  MaxProbes = 1
  MaxFaults = 1
  SiteValues = {"current", "stale"}
  NoScan = NoScan
  NoSlot = NoSlot
PROPERTIES
  ScansSettle
  DispatchesSettle
CHECK_DEADLOCK FALSE
