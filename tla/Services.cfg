SPECIFICATION MCSpec
CONSTANTS
    Prompts = {p1}
    Local = {}
    WithRunID = {p1}
    Summaries = {}
    Cancels = {c1}
    Clears = {}
    MaxAttempts = 2
    MaxErrors = 1
    MaxCompactions = 1
    None = None
    Publishers = {pu1, pu2}
    MustDeliver = {pu2}
    Subscribers = {su1, su2}
    Closers = {cl1}
    BufferSize = 1
    MaxEvents <- MCMaxEvents
    NoOne = NoOne
    FullLength <- MCFullLength
    QueueSize = 1
    Shellers = {"sh1", "sh2"}
    HomeOf <- MCHomeOf
    MaxBackgroundJobs = 1
    MaxStarts = 2
    LspStarters = {ls1, ls2}
    LspStoppers = {lk1}
    MaxLspClients = 3
    RetryDelay = 1
    McpUsers = {mu1, mu2}
    MaxMcpSessions = 2
    Commands = {k1, k2}
    Builds = {"old", "new"}
    MaxServers = 3
    MaxCrashes = 1
    Nobody = Nobody
    Watchers = {jw1, jw2}
    Jobs = {j1}
    MaxRecords = 2
    MaxReadErrors = 1
    NoOwner = NoOwner
INVARIANTS
    CoordSound
    ExitTellsTheTruth
    ProcessesAccounted
    StatesAgree
    ServersAreShared
PROPERTIES
    EveryRunIDTerminates
    ImplementsLossyChannel
    DropsHaveCause
    
    CommandEnds
    JournalIsCaughtUp
