CONSTANTS
  Proc = {p1, p2}
  Bluetooth = {b1, b2}
  Wlan = {w1, w2}
  NoDev = nodev
  MaxRegs = 3
  MaxUnplugs = 1
SPECIFICATION Spec
SYMMETRY Symmetry
INVARIANTS TypeOK OffIsOff OnIsUp RightDevice ReadBack
CHECK_DEADLOCK FALSE
