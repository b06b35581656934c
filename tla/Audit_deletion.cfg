\* One worker and the deletion of a user.
SPECIFICATION Spec
CONSTANTS
    w1 = w1
    w2 = w2
    u1 = u1
    u2 = u2
    Workers <- OneWorker
    Users <- TwoUsers
    Deletable <- OneUser
    BareActions = {"LOGOUT"}
    WriteActions = {"DEPOSIT"}
    MaxRows = 3
    Nobody = Nobody
    NoWorker = NoWorker
    Genesis = Genesis
    DeleteAction = "SECURITY_EVENT"
INVARIANTS
    ChainValid
