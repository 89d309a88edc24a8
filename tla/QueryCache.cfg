SPECIFICATION CacheSpec
CONSTANTS
  Keys = {k1, k2, k3}
  Values = {v1, v2}
  NoValue = NoValue
  Sizes = {0, 1, 2}
  Ttl = 1
  MaxTime = 3
INVARIANTS
  CacheTypeOK
PROPERTIES
  ImplementsForgetfulMap
