SPECIFICATION FairSpec
CONSTANTS
    Symlinked = FALSE
    Frames = {1, 2, 3}
    Strangers = {3}
    Cap = 1
    MayCrash = TRUE
INVARIANTS
    TypeOK
    KeyWhole
    StatusMeansAnswer
    CleanUnlessCutShort
PROPERTY Exits
CHECK_DEADLOCK FALSE
