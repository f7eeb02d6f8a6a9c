SPECIFICATION Spec
CONSTANTS
  w1 = w1
  w2 = w2
  s1 = s1
  s2 = s2
  Workers <- TwoWorkers
  Sessions <- TwoSessions
  NoSid = NoSid
  TTL = 1
  MaxSecond = 2
  MaxRefresh = 1
  MaxPassword = 1
SYMMETRY Symmetry
INVARIANTS
  RefreshTokenWorksOnce
  EverySessionIndexed
  RevokedSessionsEnd
  LifetimeIsAbsolute
CHECK_DEADLOCK FALSE
