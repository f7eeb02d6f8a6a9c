SPECIFICATION Spec
CONSTANTS
  w1 = w1
  w2 = w2
  w3 = w3
  Workers <- TwoWorkers
  Tokens = {t1, t2, t3, t4}
  MaxClaims = 4
  NoToken = NoToken
  NoWorker = NoWorker
  Sizes = {2}
  ChunkSizes = {1, 2}
  MaxFaults = 1
  CleanupMayFail = TRUE
SYMMETRY Symmetry2
INVARIANT InterruptedUploadResumes
CHECK_DEADLOCK FALSE
