\* Overlapping unlocked appends, nobody deleted, nobody tampering.
SPECIFICATION Spec
CONSTANTS
    w1 = w1
    w2 = w2
    u1 = u1
    u2 = u2
    Workers <- TwoWorkers
    Users <- TwoUsers
    Deletable <- Nothing
    BareActions = {"LOGOUT"}
    WriteActions = {"DEPOSIT"}
    MaxRows = 3
    Nobody = Nobody
    NoWorker = NoWorker
    Genesis = Genesis
    DeleteAction = "SECURITY_EVENT"
SYMMETRY WorkersAlike
INVARIANTS
    ChainValid
