SPECIFICATION FairSpec
CONSTANTS
    Calls = {c1}
    Closers = {k1, k2}
    Reader = reader
    None = none
    MaxInbox = 1
    Chatter = {"ping"}
    DaemonMayStall = TRUE
PROPERTIES
    CallsReturnAfterLoss
    ContextBoundsCall
    CloseWakesCalls
CHECK_DEADLOCK FALSE
