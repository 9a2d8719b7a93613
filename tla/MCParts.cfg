SPECIFICATION PartsSpec
CONSTANTS
    WindowLimit = 16
    RoundTrips = {1, 20}
    DataSizes = {1, 4}
    MaxBytes = 9
    MaxSamples = 3
    Threads = {"t1", "t2", "t3"}
    InTokio = {"t3"}
    NoThread = "nobody"
    MaxCalls = 2
    MaxSwitches = 1
    Routers = {"server", "sub"}
    Root = "server"
    Patterns <- MCPatterns
    Singles = {":x", ":y"}
    Rests = {"*r", "*"}
    Nameless = {"*"}
    Targets <- MCTargets
    Methods = {"GET", "POST"}
    All = "All"
    Middlewares = {"m1", "m2"}
    MaxOps = 4
    TicksPerSecond = 2
    PeekLen = 2
    PrebufferMax = 2
    MaxU64 = 7
    DebugBuild = FALSE
    MaxLength = 3
    MaxTime = 3
    MaxChanges = 1
    MaxRequests = 2
    Ranges <- MCRanges
    Encodings = {"UTF-8", "Shift_JIS"}
    Utf8 = "UTF-8"
    Binary = "binary"
    Sizes <- MCSizes
    MaxSettings = 2
    MaxBody = 4
INVARIANTS PartsTypeOK SingletonsAgree FailuresHaveCause DeadlockNeedsSwitch
INVARIANTS DispatchFollowsRegistrations ParamsRebuildPath
INVARIANTS DeliversWhatWasAsked PromiseKept NotModifiedIsCurrent TextArrives LengthIsTrue InvalidReplaced
PROPERTIES WindowNeverShrinks BlockReturns
CHECK_DEADLOCK FALSE
