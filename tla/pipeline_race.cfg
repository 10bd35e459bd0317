CONSTANTS
    h1 = h1
    x = x
    Missing = Missing
    Unknown = Unknown
    NoEvent = NoEvent
    NoSnapshot = NoSnapshot
    Source = {h1}
    Ignored = {}
    Package = {}
    RestartGlob = {}
    Extra = {x}
    Contents = {v1, v2, v3}
    AutoReload = TRUE
    RestartOnAdd = FALSE
    ReplaceAutoAdd = FALSE
    Bad = {}
    CmdTargets = {h1}
    InterruptReloads = FALSE
    GhciCap = 2
    CommandCap = 2
    MaxEdits = 4
    Deletions = FALSE
    Reverts = FALSE
SPECIFICATION RaceSpec
INVARIANTS QuiescentLoaded
SYMMETRY GoodContents
CHECK_DEADLOCK FALSE
