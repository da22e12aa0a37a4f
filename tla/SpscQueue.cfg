SPECIFICATION FairSpec
CHECK_DEADLOCK FALSE
CONSTANTS
  Capacity = 3
  BatchSize = 3
  LastItem = 8
  Garbage = Garbage
INVARIANTS
  NoSharedCell
PROPERTIES
  ImplementsFifo
  EveryItemArrives
