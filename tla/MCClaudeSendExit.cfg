SPECIFICATION Spec
CONSTANTS
    Symlinked = TRUE
    Frames = {1, 2, 3}
    Strangers = {3}
    Cap = 1
    MayCrash = FALSE
INVARIANT RemovedOnExit
CHECK_DEADLOCK FALSE
