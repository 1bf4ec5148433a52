CONSTANTS
  Proc = {p1, p2, p3}
  Data = {d1, d2}
  Empty = Empty
  Immutable = TRUE
CHECK_DEADLOCK FALSE
SYMMETRY Symmetry
SPECIFICATION EfiSpec
INVARIANTS NeverLeftMutable RefusedOnlyIfTouched SuccessIsTrue
