SPECIFICATION Spec

CONSTANTS
    r1 = r1
    r2 = r2
    r3 = r3
    Requests = {r1, r2, r3}
    MaxAttempts = 3
    MaxFailures = 4

INVARIANTS
    TypeOK
    LockIsEarned
    FailuresCounted

PROPERTIES
    LocksAtMax

SYMMETRY Interchangeable
