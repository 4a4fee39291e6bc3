CONSTANTS
    p1 = p1
    p2 = p2
    c1 = c1
    c2 = c2
    c3 = c3
    c4 = c4
    c5 = c5
    a = a
    b = b
    k = k
    m = m
    u = u
    None = None
    Procs = {p1, p2}
    Ids = {c1, c2, c3, c4, c5}
    Parts <- MCParts
    Bare = {u}
    Commands <- MCCommands
    MaxRuns = 2
    MaxRevisions = 2
    MaxFaults = 1
SPECIFICATION Spec
INVARIANTS SuccessIsImported CadDataIsWhole OverwriteRepairs NothingIsReplaced
SYMMETRY Symmetry
CHECK_DEADLOCK FALSE
