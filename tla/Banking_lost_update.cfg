\* Two overlapping requests: old_data is not the state the change replaced.
SPECIFICATION Spec
CONSTANTS
    r1 = r1
    r2 = r2
    a1 = a1
    a2 = a2
    u1 = u1
    u2 = u2
    Requests <- TwoRequests
    Accounts <- TwoAccounts
    InitialAccounts <- FirstOpen
    Users <- TwoUsers
    Owner <- OwnerEach
    Amounts = {0, 1, 2}
    MaxRows = 2
    NoRequest = NoRequest
    NoAccount = NoAccount
SYMMETRY RequestsAlike
INVARIANTS
    HistoryContiguous
