SPECIFICATION Spec
CONSTANTS
    Parents = {1, 2, 3}
    Sleepers = {1, 2, 3}
    MaxAwaits = 3
    Chunk = 2
    MaxBytes = 5
    Needs = {1, 3, 9}
    Joiners = {1}
    Tasks = {1, 2}
    Closure = Closure
    Nobody = Nobody
    MaxQueued = 2
    MaxLate = 1
    Liberties = {}
CHECK_DEADLOCK FALSE
INVARIANTS
    TypeOK
    ProtocolKept
    NoWakeUpLost
    CleanupRuns
    SharedAgreed
PROPERTY
    CancelledEnds
