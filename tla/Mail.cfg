SPECIFICATION MailSpec
CONSTANTS
  w1 = w1
  w2 = w2
  a = a
  Workers = {w1, w2}
  Shares = {a}
  MaxAttempts = 3
  MaxFaults = 1
  Findings = {f}
  Measured = {f}
  Analyzed = {f}
  Outcomes <- AlertOutcomes
  Minimums = {0, 3}
  AlertScans = 4
  Sites = {"s"}
  MaxScans = 2
  MaxImports = 2
  MaxActs = 0
INVARIANTS MailTypeOK ExtraMailsArePaid RecoveriesAreOrdered RevokedIsCancelled
PROPERTIES MailsSettle MatchesCatchUp
