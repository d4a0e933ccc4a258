SPECIFICATION LibrarySpec
CONSTANTS
    Parts = {"time"}
    PageBytes = 4
    WordBytes = 2
    Sectors <- MCSectors
    Unavailable = {3}
    FlashCalls <- MCFlashCalls
    MaxFlashCalls = 2
    PollTimeout = 3
    ControllerTimeout = 2
    MaxFd = 5
    SysDevices <- MCSysDevices
    Filesystems <- MCFilesystems
    StdDevices <- MCStdDevices
    Provides <- MCProvides
    Names <- MCNames
    Modes = {"O_RDONLY", "O_WRONLY"}
    Controlled = {1, 3, 4}
    US = 12
    MS = 4
    WordRange = 32
    HalfRange = 4
    TimerPeriods <- MCPeriods
    Roles = {"sys_clk", "timestamp", "none"}
    TimesToSet <- MCTimes
    TimesToSleep = {0, 1, 3, 6, 8, 13, 15}
    LoopsPerUs = 2
    SetWithin = 100
    MaxTimeouts = 12
    HeapStart = 6
    HeapLimit = 160
    SlabBytes = 24
    EntryBytes = 12
    BucketBytes = 4
    TextBytes = 8
    Arcs <- MCArcs
    Requests = {1, 200}
    MaxCalls = 3
    MaxRequests = 1
    MaxTicks = 1
    WordBits = 8
    PutbufSize = 3
    EchoLen = 3
    ClockInterval = 1
    MaxClockTicks = 2
    Formats <- MCFormats
    EchoedData <- MCEchoed
    Lines = {0, 1, 2}
    Code <- MCCode
    Faulty = {2, 4}
    Freq = 12
    Speeds = {0, 2, 5}
    UartModes = {"N81", "E71"}
    BuiltSpeed = 5
    BuiltMode = "N81"
    IntMax = 6
    DefaultTimeout = 3
    MaxQuiet = 8
INVARIANT SetTakesEffect
CHECK_DEADLOCK FALSE
