SPECIFICATION Spec
CONSTANTS
    MaxFrame = 16777216
    Callers = {c1, c2}
    Reader = reader
    Closer = closer
    None = none
    MaxFrames = 3
SYMMETRY Symmetry
INVARIANTS
    TypeOK
    CallersSerialised
    MessagesIntact
    BrokenMessageRefused
    FrameRoundTrip
CHECK_DEADLOCK FALSE
