CONSTANTS
    p1 = p1
    p2 = p2
    Procs <- MCProcs
    Items <- MCItems
    Request <- MCRequest
    InitLibs <- Installed
    MaxEdits = 1
    MaxFaults = 1
SPECIFICATION Spec
INVARIANTS SuccessAddsOnePart FailureRestoresLibraries CrashKeepsLibraries
PROPERTIES RunsAreAtomic
CHECK_DEADLOCK FALSE
