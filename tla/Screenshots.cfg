\* Two scans of a site, two cleaners, two failures in a behaviour.
SPECIFICATION FairSpec
CONSTANTS
  s1 = s1
  s2 = s2
  c1 = c1
  c2 = c2
  Scans = {s1, s2}
  Cleaners = {c1, c2}
  PromptWrites = TRUE
  MaxFaults = 2
  NoScan = NoScan
INVARIANTS
  TypeOK
  ShownFilesExist
  HiddenFilesAreJournaled
PROPERTIES
  ImplementsContract
  TasksLeave
  DeletedFilesLeave
CHECK_DEADLOCK FALSE
