CONSTANTS
    m1 = m1
    m2 = m2
    f1 = f1
    f2 = f2
    None = None
    Items <- MCItems
    Catalogues <- MCCatalogues
    Requests <- MCRequests
    PageSize = 2
    MaxPages = 2
    MaxAttempts = 3
    Margin = 1
    MaxDelay = 1
    Lifetimes = {1, 3}
    MaxLookups = 2
    MaxTime = 3
    MaxEdits = 1
SPECIFICATION Spec
INVARIANTS UniqueAnswer AbsenceIsComplete TokenIsFresh
PROPERTIES EveryLookupEnds
CHECK_DEADLOCK FALSE
