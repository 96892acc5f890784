SPECIFICATION Spec
CONSTANTS
    Task = {t1, t2, t3}
    Initial = 1
    Modulus = 8
    Barging = TRUE
INVARIANTS NeverOverdrawn
