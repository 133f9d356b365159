SPECIFICATION NetLiveSpec
CONSTANTS
    Caller = {c1, c2}
    NoCaller = NoCaller
    Timeouts = {"none", "ms", "invalid"}
    Malformed = {3}
    MaxWritten = 3
INVARIANTS
    StreamIntact
    RepliesInTurn
PROPERTY
    TimedCallReturns
CHECK_DEADLOCK FALSE
