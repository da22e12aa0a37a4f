SPECIFICATION Spec
CHECK_DEADLOCK FALSE
CONSTANTS
  r1 = r1
  r2 = r2
  r3 = r3
  r4 = r4
  r5 = r5
  None = None
  Results = {r1, r2, r3, r4, r5}
  StatusOf <- MCStatus
  IdOf <- MCIds
  SkuOf <- MCSkus
  Benchmarks = {r5}
  Workers = {"w1", "w2"}
  RqCap = 1
  OrderCap = 1
  CleanupCap = 1
  DbMax = 2
  CleanupMax = 2
  Faults = {"db"}
INVARIANTS
  AckedIsStored
