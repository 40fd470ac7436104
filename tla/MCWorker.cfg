SPECIFICATION WorkerSpec
CONSTANTS
    Wallets = {1, 2, 3}
    PairAccount = 4
    BurnAccount = 5
    Nobody = 0
    TopHolders = 2
    Candidates = 2
    PageRows = 1
    EdgeLimit = 10
    GraphRows = 4
    FactSet <- MCFacts
    AnswerSet <- MCAnswers
    OptionSet <- MCOptions
    ArcTokens = {1, 2, 3}
    CreatedAt <- MCCreatedAt
    PairedAt <- MCPairedAt
    Listing <- MCListing
    MaxHead = 3
    FirstWindow = 1
    PairWindow = 2
    PerPoll = 1
    ArcPages = 2
    QueueTokens = {1, 2, 3}
    Rank <- MCRank
    Nameless = {}
    Broken = {1}
    BatchSize = 2
    Concurrency = 1
    Attempts = 2
    Offered = {1, 2}
    Asked = {2}
    Ids = {1, 2}
    Item <- MCItem
    Events = {1, 2}
    Names <- MCNames
    Grave = {1}
    Weak = {2}
    TokenStates <- MCSignals
    WatchPage = 1
    EventsTaken = 1
    RobinhoodTokens = {1, 2, 3}
    RobinhoodCreator <- MCRobinhoodCreator
    Concentrated = {1, 3}
    Serial = {1}
    Lanes = {1, 2}
    PageSize = 1
    RobinhoodPages = 2
    Addresses = {1}
    Fields = {"name"}
    Proxies = {1}
    Indexed <- MCIndexed
    Views <- MCViews
    Requests = {1, 2}
    Explorers = {FALSE, TRUE}
    Ttl = 1
    CacheMax = 1
    MaxTicks = 1
    Readers = {1, 2}
    Burns = {1, 2, 3}
    Fed = {3}
    RowsPerRun = 1
    MaxFaults = 1
    FeedFaults = 2
INVARIANTS
    WorkerTypeOK
    CriticalIsFounded
    LowIsEarned
    TrapIsCaught
    CompleteIsExact
    HopsCountEvidence
    NoCreationSkipped
    OneEventADay
    AbsenceIsRead
PROPERTIES
    DiscoveryCatchesUp
    BacklogDrains
    WatchersHear
    FeedComesBack
    NoRowForgotten
