SPECIFICATION BothSpec
CONSTANTS
  Counters = {c1, c2}
  Requests = {r1, r2, r3}
  NoRequest = NoRequest
  MaxAttempts = 3
  Window = 2
  Lockout = 3
  Users = {u1, u2, u3}
  Devices = {d1}
  Tokens = {t1, t2}
  Calls = {q1, q2}
  NoRow = NoRow
INVARIANTS
  GuessesAreBounded
  ActiveOnce
  SilentForAReason
PROPERTIES
  LockEnds
