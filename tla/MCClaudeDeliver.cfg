SPECIFICATION Spec
CONSTANTS
    MaxLineBytes = 1048576
    claudeOverhead = 8192
    worstCaseEscape = 6
    Procs = {parent, p2, p3}
    Pids = {1, 2}
    Parent = parent
    Strict = {p2}
    Dirs = {1, 2}
    EnvPath <- MCEnvPath
    Delivers = {d1}
    Sends = {s1}
    None = none
INVARIANTS
    TypeOK
    MisledOnlyByExit
    StaleKeyRefused
    EnvelopeRoundTrip
    FloorHolds
CHECK_DEADLOCK FALSE
