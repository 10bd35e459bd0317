CONSTANTS
    h1 = h1
    cabal = cabal
    Missing = Missing
    Unknown = Unknown
    NoEvent = NoEvent
    NoSnapshot = NoSnapshot
    Source = {h1}
    Ignored = {}
    Package = {}
    RestartGlob = {cabal}
    Extra = {}
    Contents = {v1, v2, v3}
    AutoReload = TRUE
    RestartOnAdd = FALSE
    ReplaceAutoAdd = FALSE
    Bad = {v2}
    CmdTargets = {h1}
    InterruptReloads = TRUE
    GhciCap = 1
    CommandCap = 2
    MaxEdits = 2
    Deletions = FALSE
    Reverts = FALSE
SPECIFICATION FairSpec
INVARIANTS TypeOK QuiescentLoaded QuiescentPublished PublishedIsWhatWasCompiled
PROPERTY EventuallySettled
CHECK_DEADLOCK FALSE
