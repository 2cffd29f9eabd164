SPECIFICATION Spec
CONSTANTS
    Threads = {t1, t2, t3}
    QueueMax = 2
    MaxFrames = 3
CHECK_DEADLOCK FALSE
INVARIANTS
    TypeOK
    StreamSound
PROPERTIES
    Returns
    QuietAfterClose
