CONSTANTS
    Parts = {"receiver", "fifo", "drain", "text"}
    Script <- Calibration
    FifoDepth = 12
    RX_BUF_SIZE = 8
    Beyond = 2
    InitialBytes = {99}
    Depth = 3
    NBytes = 6
    P_CLK_FREQ_HZ = 50000000
    P_BAUD_RATE = 115200
    BitTimes = {414, 434, 459}
    Frames <- MCFrames
    NFrames = 2
    Gaps = {1, 434, 2000}
    MaxPieces = 6
SPECIFICATION LinkFairSpec
INVARIANTS StoresInBounds FlagsHold ReceivedAsSent ParsesLine
PROPERTIES ImplementsService MeasuresForever Drained ImplementsQueue EveryByteTaken
CHECK_DEADLOCK FALSE
