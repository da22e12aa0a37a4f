SPECIFICATION Spec
CHECK_DEADLOCK FALSE
CONSTANTS
  c1 = c1
  Skus = {0, 1}
  WorkerCount = 2
  ShardOf <- MCShardOf
  Callers = {c1}
  Program <- MCProgram
  Batched <- MCBatched
  StockAtStart <- MCStock
  SeenLimit = 1
  MqCap = 2
  SqCap = 1
  RqCap = 1
  KBatch = 2
  WorkerBatch = 1
  Drainers = {"d1"}
  Barrier = Barrier
INVARIANTS
  DrainedMeansProcessed
  StopProcessesAdmitted
  GapsAreRejections
