SPECIFICATION Spec
CHECK_DEADLOCK FALSE
CONSTANTS
  k1 = k1
  u1 = u1
  u2 = u2
  NoKey = NoKey
  Garbage = Garbage
  None = None
  Skus = {k1}
  Users = {u1, u2}
  Ids <- MCIds
  Purchases <- MCOneUser
  InitialStock <- MCStock
  EngineStock <- MCStock
  WarmUps <- MCWarmUps
  Nodes = {n1, n2}
  Sweepers = {n1}
  MaxStarts = 2
  Faults = {"redis", "disk"}
INVARIANTS
  StockBoundedByWarmUps
  OneOrderPerClearing
  OrdersAreLogged
