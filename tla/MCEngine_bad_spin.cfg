SPECIFICATION FairSpec
CHECK_DEADLOCK FALSE
CONSTANTS
  s1 = s1
  s2 = s2
  s3 = s3
  s4 = s4
  s5 = s5
  Barrier = Barrier
  None = None
  NoEntry = NoEntry
  Skus = {0, 1, 2}
  ShardCount = 2
  ShardOf <- MCShardOf
  Submissions = {s1, s3}
  RequestOf <- Few
  Batched = {}
  StockAtStart <- MCStock
  Flagged = {0}
  SeenLimit = 9
  MqCap = 1
  SqCap = 1
  RqCap = 1
  BatchMax = 1
  Drainers = {"d1"}
  MayStop = TRUE
  WalMayFail = FALSE
PROPERTIES
  EveryDrainReturns
