\* Every row is chained under the write lock; nobody is deleted.
SPECIFICATION Spec
CONSTANTS
    w1 = w1
    w2 = w2
    u1 = u1
    u2 = u2
    Workers <- TwoWorkers
    Users <- TwoUsers
    Deletable <- Nothing
    BareActions <- Nothing
    WriteActions = {"DEPOSIT"}
    MaxRows = 5
    Nobody = Nobody
    NoWorker = NoWorker
    Genesis = Genesis
    DeleteAction = "SECURITY_EVENT"
SYMMETRY WorkersAlike
INVARIANTS
    ChainValid
