\* Facts about histories that the ledger already implies, and the type of a page.
SPECIFICATION StatementSpec
CONSTANTS
    r1 = r1
    a1 = a1
    a2 = a2
    a3 = a3
    u1 = u1
    u2 = u2
    Requests <- OneRequest
    Accounts <- ThreeAccounts
    InitialAccounts <- ThreeAccounts
    Users <- TwoUsers
    Owner <- OwnerOfTwo
    Amounts = {1, 2}
    MaxRows = 4
    NoRequest = NoRequest
    NoAccount = NoAccount
    NoPage = NoPage
    Filters <- SomeFilters
    ListLimit = 3
INVARIANTS
    STypeOK
    RunningBalance
    ReversedOnce
SYMMETRY AccountsAlike
