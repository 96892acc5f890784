CONSTANTS
    e1 = e1
    e2 = e2
    e3 = e3
    Exec <- MCExec
    Loop <- MCLoop
    Work = Work
    MaxReady = 3
    MaxDepth = 3
SPECIFICATION FairSpec
INVARIANTS
    NothingLeftBehind
    ScheduledIsQueued
PROPERTY Drained
