SPECIFICATION Spec
CONSTANTS
    Users = {u1, u2, u3}
    Groups = {g1}
    Members = {m1, m2, m3, m4}
SYMMETRY Symmetry
INVARIANTS
    OneLiveRowPerUser
    PendingRowHasOpenInvite
    ActiveMeansConnected
PROPERTIES
    NoDowngrade
    OrphanedOnlyThroughDeletedTwin
\* The system may stop: ids run out, or the last user with access is removed.
CHECK_DEADLOCK FALSE
