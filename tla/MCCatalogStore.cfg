SPECIFICATION FairSpec
CONSTANTS
  c1 = c1
  c2 = c2
  c3 = c3
  p1 = p1
  p2 = p2
  Processes = {p1, p2}
  Calls = {c1, c2, c3}
  Process <- TwoAndOne
  Builds = {old, new}
  Absent = Absent
  Torn = Torn
  None = None
  RenameRetries = 1
INVARIANTS
  TypeOK
  NeverPartial
  NotStale
  OneConnection
  NoRenameUnderOwnReader
PROPERTIES
  EveryCallEnds
