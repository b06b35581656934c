\* Requests that never overlap; nobody is deleted.
SPECIFICATION Spec
CONSTANTS
    w1 = w1
    w2 = w2
    u1 = u1
    u2 = u2
    Workers <- OneWorker
    Users <- TwoUsers
    Deletable <- Nothing
    BareActions = {"LOGOUT"}
    WriteActions = {"DEPOSIT"}
    MaxRows = 4
    Nobody = Nobody
    NoWorker = NoWorker
    Genesis = Genesis
    DeleteAction = "SECURITY_EVENT"
INVARIANTS
    ChainValid
