\* Unlocked appends, appends under the lock and deletions, overlapping.
SPECIFICATION Spec
CONSTANTS
    w1 = w1
    w2 = w2
    u1 = u1
    u2 = u2
    Workers <- TwoWorkers
    Users <- TwoUsers
    Deletable <- OneUser
    BareActions = {"LOGOUT"}
    WriteActions = {"DEPOSIT"}
    MaxRows = 4
    Nobody = Nobody
    NoWorker = NoWorker
    Genesis = Genesis
    DeleteAction = "SECURITY_EVENT"
SYMMETRY WorkersAlike
INVARIANTS
    TypeOK
    LinksPointBack
    MismatchIsDeletion
