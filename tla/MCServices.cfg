CONSTANTS
    Convs = {"c1", "c2"}
    TeamConvs = {"c2"}
    Questions = {"q1"}
    Turns = {1, 2}
    Agents = {"a1", "a2"}
    Bots = {"b1", "b2"}
    Nobody = "nobody"
    AgentOf <- MCAgentOf
    MaxChunks = 2
    MaxChatFaults = 2
    WConvs = {w1}
    Messages = {m1, m2}
    Operators = {o1}
    MaxInboxFaults = 1
    Events = {e1, e2, e3}
    LLMEvents = {e1, e2}
    Rejected = {e3}
    MaxQueue = 2
    BatchSize = 2
    MaxRetries = 2
    MaxPipeFaults = 1
    SlackIds = {s1, s2}
    MaxDeliveries = 2
    MaxSlackFaults = 1
    Sweeps = {digest}
    Polls = {inbox}
    Items = {i1}
    Sweep = sweep
    Window = 1
    Passes = {1, 2, 3}
    Backends = 2
    MaxClock = 2
    Instances = {n1, n2}
    HostCap = 1
    ActiveWindow = 1
    Threads = {t1, t2}
    RateLimit = 2
    RateWindow = 2
    MaxInstant = 4
    MaxLostBeats = 1
    People = {p1}
    Vendors = {v1}
    Links = {l1}
    Codes = {k1, k2}
    Requests = {1, 2}
    Emails = {"ada"}
    UserIds = {1, 2}
    WsIds = {1, 2, 3}
    SessIds = {1, 2}
    Tabs = {tab1, tab2}
    Checkouts = {x1, x2}
    NoSub = nosub
    MaxEvents = 3
    Hooks = {h1, h2}
    AgentJobs = {}
    PlanJobs = {g1}
    EvalJobs = {j1, j2}
    Posts = {u1}
    EndedRuns = {r1, r2}
    PerAgent = 2
    Runners = 2
    FreeCredits = 2
    Budgets = {0, 1}
    MaxSettings = 1
    MaxSpendFaults = 1
    GoogleAccounts = {ga, gb}
    Consents = {z1, z2}
    Callbacks = {cb1, cb2}
    Revokes = {rv1}
    Calls = {ca1}
SPECIFICATION Spec
INVARIANTS ServicesTypeOK StreamIntact StuckPerFault NobodyForgotten EventsStored SlackOnce FedOnce CodesSpentOnce NoOrphans PlanFollows BooksBalance JudgedOnce ConnectedAs
PROPERTIES FinalStays LimitsHold
CHECK_DEADLOCK FALSE
