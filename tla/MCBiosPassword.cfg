CONSTANTS
  Proc = {p1, p2, p3}
  Role = {bios_admin, power_on}
  Admin = bios_admin
  Password = {right, wrong}
  Secret = right
  None = none
  MaxUnloads = 1
SPECIFICATION Spec
SYMMETRY Symmetry
INVARIANTS StagedInFirstRole RightPasswordWorks ErrorMeansNotApplied
CHECK_DEADLOCK FALSE
