SPECIFICATION Spec
CONSTANTS
    Calls = {c1, c2}
    m1 = m1
    m2 = m2
    Listed <- MCListed
    Refs <- MCRefs
    Slugs <- MCSlugs
    TTL = 1
    MaxClock = 2
    NoMarket = NoMarket
SYMMETRY Symmetry
INVARIANTS
    TypeOK
    ListFresh
    FindTruthful
