SPECIFICATION LiveSpec
CONSTANTS
    front = front
    back = back
    Service = {front, back}
    Actor = {a1, a2}
    Pattern = {p1}
    Handler = {h1, h2}
    NoActor = NoActor
    Calls <- MCCalls
    MaxDepth = 2
    MaxMade = 1
    MaxCall = 1
    MaxHandler <- MCMaxHandler
PROPERTY
    CallsReturn
INVARIANTS NoLostUpdate ChainIsASnapshot NoCircularWait
CHECK_DEADLOCK FALSE
