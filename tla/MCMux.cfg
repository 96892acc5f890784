SPECIFICATION FairSpec
CHECK_DEADLOCK FALSE
CONSTANTS
    N = 3
    Kinds = {"anyOf", "mostOf", "allOf"}
INVARIANTS
    FinishedUnlessTwice
    ToldOnce
    Results
PROPERTIES
    Ends
