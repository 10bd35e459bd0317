SPECIFICATION Spec
CHECK_DEADLOCK FALSE
SYMMETRY Symmetric
CONSTANTS
    Source = {h}
    Ignored = {}
    Package = {}
    RestartGlob = {k}
    Extra = {}
    Contents = {a, b, c}
    Missing = missing
    Unknown = unknown
    NoEvent = noEvent
    NoSnapshot = noSnapshot
    RestartOnExit = FALSE
    InterruptReloads = TRUE
    GhciHooks = TRUE
    MaxEdits = 2
    MaxFailures = 2
    MaxEvals = 1
    MaxSessions = 5
INVARIANT QuiescentPublished
