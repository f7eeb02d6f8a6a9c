SPECIFICATION FairSpec
CONSTANTS
  w1 = w1
  w2 = w2
  w3 = w3
  Workers <- TwoWorkers
  Tokens = {t1, t2, t3, t4, t5, t6, t7}
  MaxClaims = 4
  NoToken = NoToken
  NoWorker = NoWorker
  Sizes = {0, 2}
  ChunkSizes = {1, 2}
  MaxFaults = 2
  CleanupMayFail = TRUE
PROPERTIES
  SessionsLeave
  ReclaimedAfterRestarts
CHECK_DEADLOCK FALSE
