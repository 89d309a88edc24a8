SPECIFICATION FairSpec
CONSTANTS
  r1 = r1
  r2 = r2
  r3 = r3
  o1 = o1
  o2 = o2
  good = good
  bad = bad
  Requests = {r1, r2, r3}
  Asked <- MCAsked
  Operations = {o1, o2}
  Data = {good, bad}
  InputSchema <- MCInputSchema
  OutputSchema <- MCOutputSchema
  NoOperation = NoOperation
  NoRequest = NoRequest
  NotCompiled = NotCompiled
  Workers = 2
  MaxChanges = 1
  MaxPanics = 1
INVARIANTS
  TypeOK
  NoInterference
PROPERTIES
  EveryRequestEnds
\* All requests have ended.
CHECK_DEADLOCK FALSE
