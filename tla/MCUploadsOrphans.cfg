SPECIFICATION Spec
CONSTANTS
  w1 = w1
  w2 = w2
  w3 = w3
  Workers <- TwoWorkers
  Tokens = {t1, t2, t3, t4, t5, t6}
  MaxClaims = 6
  NoToken = NoToken
  NoWorker = NoWorker
  Sizes = {0, 2}
  ChunkSizes = {1, 2}
  MaxFaults = 3
  CleanupMayFail = FALSE
SYMMETRY Symmetry2
INVARIANT NoOrphanObjects
CHECK_DEADLOCK FALSE
