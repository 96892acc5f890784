SPECIFICATION FairSpec
CONSTANTS
    Task = {t1, t2, t3, t4, t5}
    Initial = 2
    Modulus = 8
    Barging = FALSE
INVARIANTS Permits NoIdlePermit
PROPERTIES FirstComeFirstServed Served
