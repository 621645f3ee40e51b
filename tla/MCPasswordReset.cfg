SPECIFICATION ResetSpec
CONSTANTS
    Identifiers = {i1, i2}
    Codes = {c1, c2, c3}
    ResetTokens = {t1, t2}
    NoToken = NoToken
    Requests = {q1, q2}
    TTL = 2
    Cooldown = 1
    MaxSends = 2
    MaxTries = 2
    TokenTTL = 3
    MaxRows = 2
    MaxTime = 2
    Sessions = {}
    NoSession = NoSession
    MaxVersion = 0
SYMMETRY ResetSymmetry
INVARIANTS
    SideBySideAfterExpiry
PROPERTIES
    KeepsPromise
\* Codes and the clock run out.
CHECK_DEADLOCK FALSE
