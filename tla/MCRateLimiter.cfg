SPECIFICATION Spec
CONSTANTS
  Callers = {c1, c2, c3}
  Limit = 2
  Window = 2
  MaxClock = 4
SYMMETRY Symmetry
INVARIANTS
  TypeOK
  LimitPerWindow
  BoundedOvershoot
