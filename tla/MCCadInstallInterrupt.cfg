CONSTANTS
    p1 = p1
    p2 = p2
    Procs <- MCProcs
    Items <- MCItems
    Request <- RerunRequest
    InitLibs <- Installed
    MaxEdits = 0
    MaxFaults = 1
SPECIFICATION Spec
INVARIANTS GivingUpRollsBack
CHECK_DEADLOCK FALSE
