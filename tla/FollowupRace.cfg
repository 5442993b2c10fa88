SPECIFICATION Spec
CONSTANTS Versions = {1, 2} MaxEvents = 4
PROPERTY AcceptedRisksAreKept
CHECK_DEADLOCK FALSE
