\* Two overlapping requests at two worker processes.
SPECIFICATION Spec

CONSTANTS
    r1 = r1
    r2 = r2
    w1 = w1
    w2 = w2
    Requests = {r1, r2}
    Workers = {w1, w2}
    MaxForms = 2

INVARIANTS
    TypeOK
    AdmittedByKey
    ConfigInLayers
    SavedApplyWhole
    RotationTakesHold


SYMMETRY Interchangeable
