SPECIFICATION Spec
CHECK_DEADLOCK FALSE
CONSTANTS
    N = 3
    Kinds = {"anyOf", "mostOf", "allOf"}
INVARIANT RestFinished
