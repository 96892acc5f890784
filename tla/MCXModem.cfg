SPECIFICATION FairSpec
CHECK_DEADLOCK FALSE
CONSTANTS
    Lengths = {0, 1, 2, 3, 4}
    Modulus = 2
    MaxCalls = 4
    MaxTroubles = 3
INVARIANTS
    InOrder
    AnswersAreTrue
    CleanSucceeds
PROPERTIES
    Terminates
