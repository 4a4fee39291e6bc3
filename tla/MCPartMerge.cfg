CONSTANTS
    None = None
    Mismatch = Mismatch
    Refused = Refused
    Answers <- MCAnswers
    Requests <- MCRequests
    Symbols <- MCSymbols
    Normal <- MCNormal
    Links = {"mirror", "site", "site2", "page"}
    Mirrors = {"mirror"}
SPECIFICATION Spec
INVARIANTS EveryWordIsKept OrderDoesNotMatter SymbolAgrees
CHECK_DEADLOCK FALSE
