CONSTANTS
    Nothing = Nothing
    Grid = 10
    MaxCost = 4
    Symbols <- MCSymbols
    Heads <- MCHeads
    SymbolLines <- MCSymbolLines
    PackageLines <- MCPackageLines
    Cost <- MCCost
SPECIFICATION DrawingSpec
INVARIANTS SymbolIsTheDrawing FootprintIsTheDrawing
CHECK_DEADLOCK FALSE
