SPECIFICATION FairSpec
CONSTANTS
  WorkerCounts = {1, 2}
  MaxChanges = 3
  MaxSignals = 2
INVARIANTS
  TypeOK
  CleanupComplete
  VerdictIsHonest
PROPERTIES
  HealthFollowsStore
  SignalEndsProcess
\* The process ends.
CHECK_DEADLOCK FALSE
