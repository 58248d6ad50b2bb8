SPECIFICATION Spec
CONSTANTS
    Items = {i1, i2}
    Workers = {w1, w2}
    Bundles = {b1}
    TTLs = {1}
    MaxTime = 2
    MaxCrash = 1
    NoWorker = NoWorker
    NoItem = NoItem
SYMMETRY Symmetry
INVARIANT LeaseOnlyWhileWorked
INVARIANT RefsBacked
PROPERTY LeaseServiceSpec
PROPERTY RowsNameTheState
PROPERTY NoStateSkipped
CHECK_DEADLOCK FALSE
