SPECIFICATION LiveSpec
CONSTANTS
    Service = {exec, registry}
    Client = {c1}
    MaxRequest = 1
    MaxOp = 1
INVARIANTS
    NoServiceLeftBehind
    ExitCodeTellsFailure
PROPERTIES
    SignalEndsRun
    StopEndsStart
CHECK_DEADLOCK FALSE
