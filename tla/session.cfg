SPECIFICATION Spec
CONSTANTS
    Calls = {c1, c2}
    Keys = {k}
    Feed = feed
    NoOne = noOne
    MaxFaults = 1
INVARIANTS
    TypeOK
    OwnAccount

    
