SPECIFICATION RowsSpec
CONSTANTS
  Users = {u1, u2}
  Nobody = Nobody
  Groups = {g1}
  Members = {m1, m2, m3, m4}
  Papers = {p1}
  Expenses = {e1}
  Holders = {h1, h2}
  Cards = {c1, c2}
  Numbers = {n1, n2}
  Requests = {r1, r2}
  NoRequest = NoRequest
SYMMETRY Symmetry
INVARIANTS
  PartsGoWithWhoAddedThem
  ChecksSuffice
  NothingLiveIsLeft
PROPERTIES
  DeletedForGood
CHECK_DEADLOCK FALSE
