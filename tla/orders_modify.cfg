SPECIFICATION Spec
CONSTANTS
    Apps = {a1, a2}
    Keys = {k1}
    NoKey = NoKey
    MaxOrders = 3
INVARIANTS
    ReplacementKeepsPostOnly
