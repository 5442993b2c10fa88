\* One DNS outage during the revalidation of the proof.
SPECIFICATION Spec
CONSTANTS
  w1 = w1
  w2 = w2
  Workers = {w1, w2}
  LeaseTime = 2
  RenewTime = 1
  AnswerDelay = 0
  MaxDeepAttempts = 2
  MaxJobAttempts = 2
  MaxStalled = 1
  MaxFaults = 1
  NoWorker = NoWorker
INVARIANTS
  OutagePostpones
CHECK_DEADLOCK FALSE
