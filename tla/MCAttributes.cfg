SPECIFICATION Spec
CONSTANTS
  Dev = {d1, d2}
  NoDev = NoDev
  IntMod <- MCIntMod
  LongMax <- MCLongMax
  MaxName = 1
  MaxNumber = 1
  MaxMoves = 2
  Numbers <- MCNumbers
  Indices <- MCIndices
SYMMETRY Symmetry
INVARIANT TypeOK
INVARIANT TypedIsSet
INVARIANT ReadBack
INVARIANT GetThenSet
INVARIANT RightDevice
CHECK_DEADLOCK FALSE
