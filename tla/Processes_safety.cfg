SPECIFICATION Spec
CONSTANTS
    main = main
    p1 = p1
    gmain = gmain
    gbody = gbody
    gbranch = gbranch
    Proc = {main, p1}
    Name = {n1}
    NoProc = NoProc
    NoName = NoName
    Goroutine = {gmain, gbody, gbranch}
    Home <- MCHome
    Body <- MCBody
    MainProc = main
    Bounds = {0, 1}
    DefaultMailboxBound = 1
    MaxSend <- MCSend
    MaxRecv <- MCRecv
INVARIANTS
    NameBackPointer
    NoSleepingReceiver
    NoSleepingSender
    SendAnswerIsTrue
    FifoPerSender
PROPERTY
    ImplementsQueues
CHECK_DEADLOCK FALSE
