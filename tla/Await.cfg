SPECIFICATION LiveSpec
CONSTANTS
    N = 3
    Modes = {"all", "full", "first", "any"}
INVARIANTS
    ResultIsOwed
    PrintedOnce
PROPERTIES
    FirstWins
    StragglersEnd
CHECK_DEADLOCK FALSE
