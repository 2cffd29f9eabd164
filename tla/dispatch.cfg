SPECIFICATION Spec
CONSTANTS
    Subs = {s1, s2}
    MaxFrames = 2
    MaxTries = 2
INVARIANTS
    TypeOK
    EveryEntryOnce
    InOrder
PROPERTIES
    FramesServed
