SPECIFICATION Spec
CONSTANTS
    Delivers = {d1, d2}
    Closers = {}
    Threads = {t1, t2}
    None = none
    MaxOutages = 0
INVARIANT ErrorMeansNotArrived
CHECK_DEADLOCK FALSE
