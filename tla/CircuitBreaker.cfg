SPECIFICATION FairSpec
CONSTANTS
  FailureThreshold = 2
  ResetTimeout = 2
  OutageEnd = 6
  MaxClock = 8
  Callers = {c1, c2, c3}
INVARIANTS
  TypeOK
  CountsConsecutiveFailures
PROPERTIES
  ImplementsContract
  RecoversAfterOutage
