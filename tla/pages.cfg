SPECIFICATION PagesSpec
CONSTANTS
    MaxItems = 4
    Limits = {0, 1, 2, 3}
    NoLimit = NoLimit
INVARIANTS
    PagesTypeOK
    ItemsInOrder
    NoGaps
PROPERTIES
    ReadEnds
