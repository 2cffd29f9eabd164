SPECIFICATION Spec
CONSTANTS
    Apps = {a1, a2}
    Keys = {k1, k2}
    NoKey = NoKey
    MaxOrders = 3
SYMMETRY Symmetry
INVARIANTS
    TypeOK
    ReplacesOwnCancel
    CancelAllReport
    IndexSound
