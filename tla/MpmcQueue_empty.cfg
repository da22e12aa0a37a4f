SPECIFICATION Spec
CHECK_DEADLOCK FALSE
CONSTANTS
  Producers = {p1, p2}
  Consumers = {q1, q2}
  Capacity = 2
  Rounds = 2
  Garbage = Garbage
INVARIANTS
  FalseMeansEmpty
