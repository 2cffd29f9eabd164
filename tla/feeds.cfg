SPECIFICATION Spec
CONSTANTS
    Apps = {a1, a2}
    NoFeed = NoFeed
    Overflow = 2
INVARIANTS
    TypeOK
    OrphansOnlyByRace
PROPERTIES
    NoReconnectAfterEnd
    StopEnds
    Reconnects
