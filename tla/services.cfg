SPECIFICATION ServicesSpec
CONSTANTS
    m1 = m1
    m2 = m2
    Messages <- MCMessages
    Old <- MCOld
    Date <- MCDate
    MaxPosts = 2
    MaxFetches = 1
    MaxUpsets = 1
    Logs = {1, 2}
    parsed = parsed
    failed = failed
    foreign = foreign
    Sms <- MCSms
    Parsed <- MCParsed
    Failed <- MCFailed
    KnownAccount <- MCKnown
    JobTypes <- WithLlm
    LlmTries = 2
    g1 = g1
    r1 = r1
    t1 = t1
    t2 = t2
    Goals = {g1}
    Rules = {r1}
    Txns = {t1, t2}
    Amount <- MCAmount
    Best <- MCBest
    NoRule = NoRule
    NoGoal = NoGoal
    Writers = {1, 2}
    Opening = {0, 3}
    MaxLinks = 2
    MaxAsks = 2
    Tabs = {1, 2}
    MaxKeys = 2
    MaxParses = 3
    MaxDrops = 1
    Handlers = {1, 2, 3}
    MaxConns = 2
CHECK_DEADLOCK FALSE
INVARIANTS
    MobileSafe
    SmsSafe
    InvestmentSafe
    UserSafe
    PoolSafe
PROPERTIES
    EveryWaitEnds
