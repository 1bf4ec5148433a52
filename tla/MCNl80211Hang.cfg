CONSTANTS
  MaxCalls = 1
  MaxReload = 0
CHECK_DEADLOCK FALSE
SPECIFICATION Spec
PROPERTIES SettersReturn
