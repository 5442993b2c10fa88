\* Answers may come later than the margin of the watch allows.
SPECIFICATION Spec
CONSTANTS
  w1 = w1
  w2 = w2
  Workers = {w1, w2}
  LeaseTime = 2
  RenewTime = 1
  AnswerDelay = 2
  MaxDeepAttempts = 2
  MaxJobAttempts = 2
  MaxStalled = 1
  MaxFaults = 1
  NoWorker = NoWorker
INVARIANTS
  TransportsUnderLease
CHECK_DEADLOCK FALSE
