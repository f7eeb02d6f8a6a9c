SPECIFICATION Spec
CONSTANTS
  w1 = w1
  w2 = w2
  s1 = s1
  s2 = s2
  Workers <- TwoWorkers
  Sessions <- TwoSessions
  NoSid = NoSid
  TTL = 2
  MaxSecond = 3
  MaxRefresh = 2
  MaxPassword = 1
SYMMETRY Symmetry
INVARIANT SessionsKnowPassword
CHECK_DEADLOCK FALSE
