CONSTANTS
    p1 = p1
    p2 = p2
    Procs <- MCProcs
    Names <- MCNames
    Uris <- MCUris
    Request <- MCRequest
    InitTables <- MCInitTables
    MaxRuns <- MCMaxRuns
    MaxEdits = 1
    MaxFaults = 2
SPECIFICATION Spec
INVARIANTS RegisteredInBoth FailureRestoresTables NoFilesLeftBehind
PROPERTIES OnlyRacedEntriesLost NoCollisionWritten
CHECK_DEADLOCK FALSE
