SPECIFICATION FairSpec
CHECK_DEADLOCK FALSE
CONSTANTS
  k1 = k1
  k2 = k2
  u1 = u1
  u2 = u2
  c1 = c1
  c2 = c2
  c3 = c3
  c4 = c4
  NoKey = NoKey
  None = None
  Skus = {k1, k2}
  Users = {u1, u2}
  Ids <- MCIds
  InitialStock <- MCStock
  Purchases <- Rivals
  PurchaseOf <- RivalsOf
  Calls = {c1, c2, c3}
  Nodes = {n1}
  Reserved = {3}
  MaxRetries = 2
  Faults = {"slow"}
PROPERTIES
  ReservationSettles
