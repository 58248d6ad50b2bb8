SPECIFICATION FairSpec
CONSTANTS
    p1 = p1
    p2 = p2
    p3 = p3
    Procs <- Runs
    Named <- Runs
    Forcers <- LastRun
    MaxCrash = 1
    NoFile = NoFile
CHECK_DEADLOCK FALSE
INVARIANT LockTypeOK
INVARIANT FileNamesHolder
PROPERTY StaleLockYields
