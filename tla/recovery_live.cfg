SPECIFICATION FairSpec
CHECK_DEADLOCK FALSE
CONSTANTS
    Source = {h}
    Ignored = {}
    Package = {}
    RestartGlob = {k}
    Extra = {}
    Contents = {a, b}
    Missing = missing
    Unknown = unknown
    NoEvent = noEvent
    NoSnapshot = noSnapshot
    RestartOnExit = FALSE
    InterruptReloads = TRUE
    GhciHooks = TRUE
    MaxEdits = 1
    MaxFailures = 2
    MaxEvals = 1
    MaxSessions = 5
PROPERTY EventuallyReplaced
PROPERTY ShutdownKills
