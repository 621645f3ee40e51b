SPECIFICATION PhoneSpec
CONSTANTS
    Users = {u1, u2}
    Numbers = {n1, n2}
    Codes = {c1, c2}
    NoNumber = NoNumber
    NoCode = NoCode
    Requests = {q1, q2}
    TTL = 2
    Cooldown = 1
    MaxSends = 2
    MaxTries = 2
    MaxEdits = 1
    MaxRows = 2
    MaxTime = 2
    Usernames = {}
    RegistrationIds = {}
    NoId = NoId
SYMMETRY PhoneSymmetry
INVARIANTS
    VerifiedWasReceived
PROPERTIES
    ConsumedForGood
    KeepsPromise
\* Codes and the clock run out.
CHECK_DEADLOCK FALSE
