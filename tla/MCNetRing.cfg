CONSTANTS
  Proc = {p1, p2}
  RingMax <- MCRingMax
  IntMax = 7
  Size <- MCSize
CHECK_DEADLOCK FALSE
SPECIFICATION RingSpec
INVARIANTS SuccessMeansSet
PROPERTIES OtherRingKept
