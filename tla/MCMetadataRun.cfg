CONSTANTS
    m1 = m1
    m2 = m2
    f1 = f1
    f2 = f2
    c1 = c1
    c2 = c2
    BadId = BadId
    None = None
    Mpns <- MCMpns
    Mfrs <- MCMfrs
    Ids <- MCIds
    Requests <- MCRequests
    OptionSets <- MCOptions
SPECIFICATION RunSpec
INVARIANTS ExportIsProved ManifestIsHonest SuccessIsComplete FailureIsExplained
PROPERTIES EffectsInOrder EveryRunAnswers
CHECK_DEADLOCK FALSE
