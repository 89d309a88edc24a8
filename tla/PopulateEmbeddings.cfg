SPECIFICATION FairSpec
CONSTANTS
  Targets = {t1, t2}
  Operations = {o1, o2}
  Absent = Absent
  Damaged = Damaged
  NoTarget = NoTarget
  NoOperation = NoOperation
  MaxFailures = 3
INVARIANTS
  TypeOK
  NothingLost
  SuccessIsComplete
PROPERTIES
  PublishedIsComplete
  RerunHeals
