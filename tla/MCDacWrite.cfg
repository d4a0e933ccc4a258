CONSTANTS
    Requests <- TwoFrames
    ClkCnt = 1
    Stretches = {FALSE, TRUE}
    Faults = FALSE
SPECIFICATION FairSpec
INVARIANTS FramesAsRequested ReturnsAcknowledge NoFalseArbitrationLoss
PROPERTIES CleanBus AllWritten
