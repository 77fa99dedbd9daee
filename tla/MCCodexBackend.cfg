SPECIFICATION Spec
CONSTANTS
    Delivers = {d1, d2}
    Closers = {k1}
    Threads = {t1, t2}
    None = none
    MaxOutages = 2
SYMMETRY Symmetry
INVARIANTS
    TypeOK
    NoConnectionLeak
    FailedNotCached
    InitializedFirst
    NoRedirect
    HonestReceipt
CHECK_DEADLOCK FALSE
