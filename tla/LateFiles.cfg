\* One scan, whose writer may lose its connection, and one cleaner.
SPECIFICATION Spec
CONSTANTS
  s1 = s1
  s2 = s2
  c1 = c1
  c2 = c2
  Scans = {s1}
  Cleaners = {c1}
  PromptWrites = TRUE
  MaxFaults = 1
  NoScan = NoScan
INVARIANTS
  NoLateFiles
CHECK_DEADLOCK FALSE
