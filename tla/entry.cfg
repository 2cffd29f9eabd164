SPECIFICATION Spec
CONSTANTS
    Words <- MCWords
    Changes <- MCChanges
    MarketIds <- MCMarketIds
    BadIds <- MCBadIds
    Numerals <- MCNumerals
    Records <- MCRecords
    MaxSize = 2
    MaxOrders = 2
INVARIANTS
    TypeOK
    SideKept
    ViewTrue
    OvershootBounded
    FoundByItsId
