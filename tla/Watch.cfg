SPECIFICATION WatchSpec
CONSTANTS
    StopOrder <- MCStopOrder
    Fsnotify <- MCFsnotify
    Buffer = 2
    MaxEvents = 3
INVARIANTS
    GapIsMarked
    NoSendOnClosed
PROPERTY
    UnwatchEndsPump
CHECK_DEADLOCK FALSE
