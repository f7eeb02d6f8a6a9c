SPECIFICATION MCSpec
CONSTANTS
    Requests = {q1, q2}
    Clients = {c1, c2}
    GlobalLimit = 1
    CaptchaLimit = 1
    MaxChanges = 1
    Captchas = {k1}
    Attempts = {a1, a2}
    Passwords = {w1, w2}
    NoCaptcha = NoCaptcha
    MaxAdmin = 2
    MaxSize = 3
    Word = 6
    MaxId = 3
    Names = {1, 2}
    MaxWrites = 2
    Jobs = {j1, j2}
    MaxLogins = 2
    MaxRotations = 1
SYMMETRY MCSymmetry
CHECK_DEADLOCK FALSE
INVARIANT HandlersHaveRights
INVARIANT DenialsAudited
INVARIANT LogTellsOutcome
INVARIANT SessionsEarned
INVARIANT RangesExact
INVARIANT PagingMissesNothing
PROPERTY LimitsApart
PROPERTY SignedOutOnlyWhenOver
