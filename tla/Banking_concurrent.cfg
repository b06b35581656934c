\* Two overlapping requests, one account open and one to be opened; no symmetry,
\* which liveness does not allow.
SPECIFICATION Spec
CONSTANTS
    r1 = r1
    r2 = r2
    a1 = a1
    a2 = a2
    u1 = u1
    u2 = u2
    Requests <- TwoRequests
    Accounts <- TwoAccounts
    InitialAccounts <- FirstOpen
    Users <- TwoUsers
    Owner <- OwnerEach
    Amounts = {0, 1}
    MaxRows = 3
    NoRequest = NoRequest
    NoAccount = NoAccount
INVARIANTS
    TypeOK
    VersionsDense
    RecordsCommitTogether
    HeadIsLive
    OverdraftOnlyByReversal
    ReversalLinked
PROPERTIES
    AppendOnly
    RequestsFinish
