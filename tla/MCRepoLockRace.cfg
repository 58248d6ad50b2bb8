SPECIFICATION Spec
CONSTANTS
    p1 = p1
    p2 = p2
    p3 = p3
    Procs <- Runs
    Named <- Runs
    Forcers <- NoRuns
    MaxCrash = 0
    NoFile = NoFile
CHECK_DEADLOCK FALSE
INVARIANT MutualExclusion
