CONSTANTS
    Kinds = {"hook", "show", "compile", "named", "eval"}
    MaxOps = 2
    MaxFaults = 2
    MaxSigints = 2
SPECIFICATION Spec
INVARIANTS IdleInSync NoStall DiagnosticsShown StartupFailureReported
PROPERTY ImplementsCommandSession
CHECK_DEADLOCK FALSE
