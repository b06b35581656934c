\* Two overlapping requests on an empty database.
SPECIFICATION Spec

CONSTANTS
    r1 = r1
    r2 = r2
    n1 = n1
    n2 = n2
    Requests = {r1, r2}
    Names = {n1, n2}
    MaxVersions = 5
    MaxAsks = 1

INVARIANTS
    TypeOK
    UniqueNames
    TransactionsNameAccounts
    CustomersHaveAccounts
    LivesInOrder
    NothingOutlives

PROPERTIES
    RowsLeaveWithParty

SYMMETRY Interchangeable
