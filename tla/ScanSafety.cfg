\* Dispatch races, executions and their zombies, and two scans that compete
\* for the active place of the site: see InRegion.
SPECIFICATION Spec
CONSTANTS
  s1 = s1
  s2 = s2
  s3 = s3
  x1 = x1
  x2 = x2
  Scans = {s1, s2, s3}
  Slots = {x1, x2}
  Kind <- EachKind
  MaxAttempts = 2
  MaxStalled = 1
  MaxRecovery = 2
  MaxClaims = 2
  MaxProbes = 1
  MaxFaults = 2
  SiteValues = {"pending", "current", "stale", "invalid", "paused"}
  NoScan = NoScan
  NoSlot = NoSlot
SYMMETRY SlotSymmetry
CONSTRAINT InRegion
INVARIANTS
  TypeOK
  QueuedHasOpenDispatch
  DispatchedWasAccepted
  OneRunningAttempt
PROPERTIES
  ImplementsContract
CHECK_DEADLOCK FALSE
