CONSTANTS
  Cpu = {0, 2}
  Policy = {"big"}
  NCpu = 2
  PolicyOf <- MCPolicyOf
  HwMin <- MCHwMin
  HwMax <- MCHwMax
  Gov = {"performance"}
  Word = {"performance", "cut"}
  Key = {"governor", "freq_min_hz", "freq_max_hz", "swappiness", "scheduler", "thp", "gpu"}
  Attrs <- MCAttrs
  Lacking = {"thp"}
  Devices = {{"scheduler"}}
  Words = {"scheduler"}
  Accepts <- MCAccepts
  IntMod = 256
  MaxOther = 1
  MaxLoads = 2
  UserDocs <- MCUserDocs
CHECK_DEADLOCK FALSE
SPECIFICATION Spec
INVARIANTS TypeOK LoadSuccessMeansApplied SecondLoadSucceeds SnapshotOrdered RoundTrip
