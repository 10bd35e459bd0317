CONSTANTS
    MaxPid = 5
    MaxBirths = 2
    Limit = 1
SPECIFICATION Spec
INVARIANTS NoSurvivor BystandersSpared ChargedForItself LimitNotMissed
CHECK_DEADLOCK FALSE
