CONSTANTS
    Parts = {"drain"}
    Script <- TwoLines
    FifoDepth = 16
    RX_BUF_SIZE = 12
    Beyond = 2
    InitialBytes = {0}
    Depth = 3
    NBytes = 6
    P_CLK_FREQ_HZ = 50000000
    P_BAUD_RATE = 115200
    BitTimes = {414, 434, 459}
    Frames <- MCFrames
    NFrames = 2
    Gaps = {1, 434, 2000}
    MaxPieces = 6
SPECIFICATION LinkSpec
INVARIANT OnlyCommandsSent
CHECK_DEADLOCK FALSE
