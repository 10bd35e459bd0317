CONSTANTS
    MaxSessions = 2
    MaxEdits = 1
    MaxCrashes = 1
    Reverts = FALSE
SPECIFICATION Spec
INVARIANTS FailuresReported  NoOrphan NoMissedRepair RetriesAreEdits
PROPERTY EventuallyExits
CHECK_DEADLOCK FALSE
