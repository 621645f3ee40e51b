SPECIFICATION RegistrationSpec
CONSTANTS
    Usernames = {a1, a2}
    Numbers = {n1, n2}
    NoNumber = NoNumber
    Codes = {c1, c2}
    RegistrationIds = {r1, r2}
    NoId = NoId
    Requests = {q1, q2}
    TTL = 2
    Cooldown = 1
    MaxSends = 2
    MaxTries = 2
    MaxTime = 2
    Users = {}
    NoCode = NoCode
    MaxRows = 0
    MaxEdits = 0
SYMMETRY RegistrationSymmetry
INVARIANTS
    UsedIsClosed
    OpenAreDisjoint
PROPERTIES
    RegisteringKeepsPromise
\* Codes and the clock run out.
CHECK_DEADLOCK FALSE
