SPECIFICATION Spec
CONSTANTS
    Calls = {c1, c2}
    Closers = {k1}
    Reader = reader
    None = none
    MaxInbox = 1
    Chatter = {"other", "ping", "close", "bad"}
    DaemonMayStall = FALSE
SYMMETRY Symmetry
INVARIANTS
    TypeOK
    NoChannelPanic
    ReaderNeverBlocks
    OwnAnswer
    NoLostWaiter
    NoPendingLeak
PROPERTIES
    ClosedIsFinal
    ImplementsRpc
CHECK_DEADLOCK FALSE
