SPECIFICATION SessionsSpec
CONSTANTS
    Sessions = {s1, s2, s3, s4}
    NoSession = NoSession
    Requests = {q1, q2}
    MaxVersion = 3
    Identifiers = {}
    Codes = {}
    ResetTokens = {}
    NoToken = NoToken
    TTL = 2
    Cooldown = 1
    MaxSends = 2
    MaxTries = 2
    TokenTTL = 3
    MaxRows = 0
    MaxTime = 0
SYMMETRY SessionsSymmetry
INVARIANTS
    SurvivorsHaveRaced
    RefreshedOnce
\* Refresh tokens and passwords run out.
CHECK_DEADLOCK FALSE
