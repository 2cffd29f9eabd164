SPECIFICATION MCSpec
CONSTANTS
    Calls = {c1, c2}
    Poster = c1
    Retries = 1
    NoCall = NoCall
INVARIANTS
    TypeOK
    AtMostOnce
    OutcomeTruthful
    OneLogin
    SessionNewest
    FreshRetry
PROPERTIES
    RemoteSpec
    Settles
