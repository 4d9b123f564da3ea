SPECIFICATION Spec
CONSTANTS
    Keys = {k1, k2}
    Runs = {p1, p2, p3}
    NoRun = NoRun
    MaxCalls = 5
    InboxWaiters = {i1}
    WorkWaiters = {w1}
    TaskWaiters = {}
    MaxWork = 1
    MaxToWake = 1
    Batches = {b1, b2}
    BatchEvents = 2
    Observers = {o1}
    MaxPrunes = 1
    Calls = {c1, c2}
    Slots = {s1, s2}
    MaxAttempts = 2
    PrepareLimit = 1
    MaxGeneration = 1
    NoCall = NoCall
    Requests = {r1, r2}
    Connections = {n1}
    NoPerson = n0
    ListedIds = {1, 2, 3}
    Changes = {c7, c8}
    Persons = {n6, n7}
    Visits = {i5, i6}
    MaxRank = 3
    PageLimit = 2
    Lookers = {w5}
    MaxEmitted = 2
    QueueLimit = 1
    FileLimit = 1
    Loggers = {w3, w4}
    MaxServed = 4
    Presences = {i3, i4}
    Serves = {q3, q4}
    Sockets = {s3}
    MaxPans = 0
    ViewHeight = 14
    ViewWidth = 76
    Lines = {1, 15}
    Columns = {1, 59}
    HopLimit = 1
    GraphLimit = 3
    GraphTickets = {1, 2, 3}
    MaxMishaps = 1
    MaxNotices = 1
    MonitorDepth = 1
    AdapterDepth = 2
    Hosts = {h3, h4}
    AgentNames = {n4, n5}
    EntryIds = {1, 2, 3}
    ToolCalls = {c5, c6}
    Links = {o2, o3}
    MaxMoves = 1
    MaxPosts = 3
    Topics = {o4}
    Members = {n2, n3}
    MaxMoment = 2
    ListLimit = 2
    Listers = {l5}
    MaxReadRevision = 2
    MaxReadTurns = 2
    ReadCalls = {r6, r7}
    MaxDetails = 2
    MaxRefreshes = 1
    MaxEpochs = 2
    MaxNews = 1
    Conversations = {c3, c4}
    Filters = {l3, l4}
    MaxSamples = 2
    SentLimit = 1
    DeferLimit = 1
    HardLimit = 3
    SoftLimit = 1
    Operations = {m1, m2}
    MaxFailures = 1
    MaxTurns = 0
    MaxBatches = 2
    Lives = {x1, x2}
    MaxWorks = 2
    Works = {j1, j2}
    Handles = {z1, z2}
    HostIds = {y1, y2}
    MaxResets = 1
    Launchers = {u1}
    Daemons = {d1, d2}
    Backpressure = TRUE
    StampSteps = {0, 1}
    LastChange = 3
    Watchers = {v1, v2}
    Listens = {g1, g2}
    Followed = {f1}
    Polls = {l1, l2}
    Asks = {q1, q2}
    Attachments = {h1, h2}
    MaxRevision = 4
    PageSize = 1
    Readers = {r5}
    Editors = {e1, e2}
    MaxTokens = 2
    MaxChanges = 2
    Reads = {r3, r4}
    Silent = {}
    Items = {k3}
    MaxEdits = 2
    TicketIds = {t1, t2, t3}
    Agents = {a1, a2}
VIEW View
INVARIANTS
    NobodySleepsThroughNews AnswersAreTrue LinksAreSound AgentsLearn ReadsAreWhole
    VerdictsAreTrue EndsAreTold LogIsKept BatchesReachSession
PROPERTIES
    ImplementsLock CursorsAreHonest PoolIsSound GraphIsJudged SessionsAreKept ShownIsTrue
    WorkedOutRight
\* The store stops once it is closed, and a server once it has drained.
CHECK_DEADLOCK FALSE
