CONSTANTS
    h1 = h1
    g = g
    k = k
    x = x
    Missing = Missing
    Unknown = Unknown
    NoEvent = NoEvent
    NoSnapshot = NoSnapshot
    Source = {h1}
    Ignored = {g}
    Package = {k}
    RestartGlob = {}
    Extra = {x}
    Contents = {v1, v2}
    AutoReload = TRUE
    RestartOnAdd = TRUE
    ReplaceAutoAdd = FALSE
    Bad = {v2}
    CmdTargets = {h1}
    InterruptReloads = FALSE
    GhciCap = 2
    CommandCap = 2
    MaxEdits = 2
    Deletions = TRUE
    Reverts = FALSE
SPECIFICATION Spec
INVARIANTS QuiescentLoaded SupersededIsFollowedUp HooksBalanced QuiescentTested
CHECK_DEADLOCK FALSE
