CONSTANTS
    Users = {a, b, c}
    Val = {0, 1, 2}
    InitialValue = 0
    Wanted <- MCWanted
    None = None
SPECIFICATION FairSpec
INVARIANTS
    NoWaiterForgotten
    YieldedMatches
PROPERTY SetTerminates
