SPECIFICATION FairSpec
CONSTANTS
    None = None
    Task = {r, a, b, c}
    Scope = {s1, s2}
    Root = r
    Watched = s1
INVARIANTS
    StructuredConcurrency
    ParentIsWoken
    ReadyListExact
    CancelReachesAll
    CancelHasReason
    CancelledOnce
PROPERTIES
    CancelCompletes
    FirstExceptionWins
    ParentOutcome
    ScopeContract
