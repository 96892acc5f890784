SPECIFICATION Spec
CONSTANTS
    Parents = {1}
    Liberties = {"early"}
CHECK_DEADLOCK FALSE
INVARIANT
    ProtocolKept
