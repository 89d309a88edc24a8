SPECIFICATION Spec
CONSTANTS
  Servers = {s1, s2}
  Setups = {u1, u2}
  Secrets = {old, new}
  Empty = Empty
  None = None
  Torn = Torn
  Modes = {"up"}
PROPERTIES
  SetupIsUsed
