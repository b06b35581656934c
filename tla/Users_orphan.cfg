\* A request that overlaps the deletion of its user creates an account for
\* nobody.
SPECIFICATION Spec

CONSTANTS
    r1 = r1
    r2 = r2
    n1 = n1
    n2 = n2
    Requests = {r1, r2}
    Names = {n1, n2}
    MaxVersions = 5
    MaxAsks = 1

INVARIANTS
    OwnersExist

SYMMETRY Interchangeable
