SPECIFICATION SendSpec
CONSTANTS
    Calls = {init, queue}
    Closers = {main}
    InitCall = init
    QueueCall = queue
    Main = main
    Reader = reader
    None = none
    MaxInbox = 2
    Chatter = {"other", "ping", "close", "bad"}
    DaemonMayStall = TRUE
INVARIANT StatusTellsTruth
PROPERTY Exits
CHECK_DEADLOCK FALSE
