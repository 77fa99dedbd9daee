SPECIFICATION FairSpec
CONSTANTS
    Conns = {c1}
    RequireAuth = TRUE
    AllowUnnamed = FALSE
    LineKinds = {"blank", "junk", "notype", "auth", "badauth", "user", "other",
                 "long"}
    MaxLines = 3
INVARIANTS
    TypeOK
    AuthGate
    LastIsLast
    NoHandlerAfterServe
PROPERTIES
    IdleIsDropped
    ServeDrains
CHECK_DEADLOCK FALSE
