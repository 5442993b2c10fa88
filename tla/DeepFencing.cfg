\* Fencing and transports: answers come before the margin of the watch is
\* used up, and a lost worker may still be executing when the next one starts.
SPECIFICATION Spec
CONSTANTS
  w1 = w1
  w2 = w2
  Workers = {w1, w2}
  LeaseTime = 4
  RenewTime = 2
  AnswerDelay = 1
  MaxDeepAttempts = 3
  MaxJobAttempts = 2
  MaxStalled = 1
  MaxFaults = 1
  NoWorker = NoWorker
SYMMETRY WorkerSymmetry
INVARIANTS
  TypeOK
  OneRunningAttempt
  ResultsAreFinal
  TransportsUnderLease
PROPERTIES
  ImplementsContract
CHECK_DEADLOCK FALSE
