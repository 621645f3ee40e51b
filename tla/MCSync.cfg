SPECIFICATION Spec
CONSTANTS
    Devices = {d1, d2}
    Records = {g, r1}
    Group = g
    MaxItems = 1
    MaxTime = 2
SYMMETRY Symmetry
CONSTRAINT GroupIsOnlyDeleted
INVARIANTS
    MissedOnlyWhenLate
PROPERTIES
    DeletedStays
    
