CONSTANTS
  Proc = {p1, p2}
  Cpu = {0, 1}
  CpuArg = {1, 2}
  Policy = {"big", "little"}
  PolicyOf <- MCPolicyOf
  HwMin <- MCHwMin
  HwMax <- MCHwMax
  Hz <- MCHz
SYMMETRY Symmetry
SPECIFICATION Spec
INVARIANTS TypeOK BoundsSound RefusedOnlyIfDisturbed SuccessMeansSet
PROPERTIES ImplementsAtomic
