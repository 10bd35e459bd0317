SPECIFICATION Spec
CHECK_DEADLOCK FALSE
CONSTANTS
    Source = {a, b}
    Ignored = {}
    Package = {}
    RestartGlob = {k}
    Extra = {}
    Contents = {good, bad, mute}
    Missing = missing
    Unknown = unknown
    NoEvent = noEvent
    NoSnapshot = noSnapshot
    AutoReload = TRUE
    RestartOnAdd = FALSE
    ReplaceAutoAdd = FALSE
    Bad = {bad}
    Mute = {mute}
    CmdTargets = {a}
    Forwarded = {b}
    MaxEdits = 3
    MaxRequests = 1
INVARIANT HooksNest
INVARIANT EvalsAreValidated
INVARIANT ErrorFileIsTrue
