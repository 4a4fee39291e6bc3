CONSTANTS
    p1 = p1
    p2 = p2
    d1 = d1
    d2 = d2
    m1 = m1
    x = x
    Procs <- TwoProcs
    Packages <- MCPackages
    SourceOf <- MCSourceOf
    Signature <- MCSignature
    Candidates <- MCCandidates
    Overwrite <- MCOverwrite
    MaxRuns <- MCRuns
    MaxEdits = 2
    MaxLockEdits = 1
    MaxFaults = 1
SPECIFICATION Spec
INVARIANTS SuccessIsLocked LibraryMatchesLock
PROPERTIES InstallsWhatWasSelected
CHECK_DEADLOCK FALSE
