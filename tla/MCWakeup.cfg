CONSTANTS
  Proc = {p1, p2, p3}
  Dev = {d1, d2}
SYMMETRY Symmetry
SPECIFICATION WakeupSpec
INVARIANTS AloneIsExact
