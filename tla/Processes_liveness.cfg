SPECIFICATION LiveSpec
CONSTANTS
    main = main
    p1 = p1
    gmain = gmain
    gbody = gbody
    gbranch = gbranch
    Proc = {main, p1}
    Name = {}
    NoProc = NoProc
    NoName = NoName
    Goroutine = {gmain, gbody, gbranch}
    Home <- MCHome
    Body <- MCBody
    MainProc = main
    Bounds = {1}
    DefaultMailboxBound = 1
    MaxSend <- MCSendLive
    MaxRecv <- MCRecvLive
PROPERTIES
    ShutdownUnblocks
    SenderNotStranded
    TimedReceiveReturns
CHECK_DEADLOCK FALSE
