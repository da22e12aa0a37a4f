SPECIFICATION OwFairSpec
CHECK_DEADLOCK FALSE
CONSTANTS
  p1 = p1
  p2 = p2
  q1 = q1
  q2 = q2
  Producers = {p1, p2}
  Consumers = {q1, q2}
  Capacity = 2
  Rounds = 2
  Garbage = Garbage
  IdOf <- MCIdOf
INVARIANTS
  ExclusiveCell
  ReadsItsItem
  AcceptedIsConsumed
PROPERTIES
  ImplementsFifo
  WorkersFinish
