SPECIFICATION Spec
CONSTANTS
    Parts = {"uart"}
    UartBufLen = 2
    UartPrograms <- MCUartPrograms
    MaxCtsTurns = 1
    MaxArrivals = 2
    JtagBufLen = 3
    FifoDepth = 2
    FifoThreshold = 1
    JtagTimeout = 2
    JtagPrograms <- MCJtagPrograms
    MaxSent = 3
    AlarmSet = {"a", "b", "c"}
    TickRange = 4
    Waits = {0, 2}
    TickRate = 1
    NIRQ = 2
    Isrs = {"timer", "console"}
PROPERTY UartNeverDeadlocks
CHECK_DEADLOCK FALSE
