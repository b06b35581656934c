\* Deleting a user deletes rows of transactions that were completed.
SPECIFICATION Spec

CONSTANTS
    r1 = r1
    r2 = r2
    n1 = n1
    n2 = n2
    Requests = {r1, r2}
    Names = {n1, n2}
    MaxVersions = 5
    MaxAsks = 1

PROPERTIES
    NeverDeleted

SYMMETRY Interchangeable
