SPECIFICATION FairSpec
CONSTANTS
    Keys = {k1}
    Runs = {p1, p2, p3}
    NoRun = NoRun
    MaxCalls = 4
    InboxWaiters = {i1}
    WorkWaiters = {w1}
    TaskWaiters = {t1}
    MaxWork = 1
    MaxToWake = 1
    Batches = {b1}
    BatchEvents = 1
    Observers = {o1, o2}
    MaxPrunes = 0
    Calls = {c1, c2}
    Slots = {s1}
    MaxAttempts = 2
    PrepareLimit = 1
    MaxGeneration = 1
    NoCall = NoCall
    Requests = {r1, r2}
    Connections = {n1}
    NoPerson = n0
    ListedIds = {}
    Changes = {}
    Persons = {}
    Visits = {}
    MaxRank = 1
    PageLimit = 1
    Lookers = {}
    MaxEmitted = 0
    QueueLimit = 0
    FileLimit = 1
    Loggers = {}
    MaxServed = 0
    Presences = {}
    Serves = {}
    Sockets = {}
    MaxPans = 1
    ViewHeight = 14
    ViewWidth = 76
    Lines = {1}
    Columns = {1}
    HopLimit = 1
    GraphLimit = 1
    GraphTickets = {1}
    MaxMishaps = 0
    MaxNotices = 0
    MonitorDepth = 1
    AdapterDepth = 1
    Hosts = {}
    AgentNames = {}
    EntryIds = {}
    ToolCalls = {}
    Links = {}
    MaxMoves = 0
    MaxPosts = 0
    Topics = {}
    Members = {}
    MaxMoment = 1
    ListLimit = 1
    Listers = {}
    MaxReadRevision = 1
    MaxReadTurns = 0
    ReadCalls = {}
    MaxDetails = 0
    MaxRefreshes = 0
    MaxEpochs = 1
    MaxNews = 0
    Conversations = {c3, c4}
    Filters = {l3}
    MaxSamples = 0
    SentLimit = 1
    DeferLimit = 1
    HardLimit = 1
    SoftLimit = 1
    Operations = {}
    MaxFailures = 0
    MaxTurns = 1
    MaxBatches = 1
    Lives = {x1}
    MaxWorks = 0
    Works = {}
    Handles = {}
    HostIds = {}
    MaxResets = 0
    Launchers = {}
    Daemons = {}
    Backpressure = TRUE
    StampSteps = {1}
    LastChange = 2
    Watchers = {v1}
    Listens = {g1}
    Followed = {f1}
    Polls = {}
    Asks = {}
    Attachments = {}
    MaxRevision = 1
    PageSize = 1
    Readers = {}
    Editors = {}
    MaxTokens = 0
    MaxChanges = 0
    Reads = {}
    Silent = {}
    Items = {k3}
    MaxEdits = 0
    TicketIds = {t2}
    Agents = {a1}
ACTION_CONSTRAINT OneWaiter
PROPERTIES
    CallersAreServed StoreSettles ConnectionSettles
\* The store stops once it is closed, and a server once it has drained.
CHECK_DEADLOCK FALSE
