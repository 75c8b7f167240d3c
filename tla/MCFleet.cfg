SPECIFICATION FleetFairSpec
CONSTANTS
    q1 = q1
    s1 = s1
    s2 = s2
    t1 = t1
    t2 = t2
    Ids = {j1, j2}
    NoId = NoId
    Tenants = {t1, t2}
    QueueNames = {q1}
    Watched <- OneQueue
    Budgets = {1}
    PromoteBatch = 1
    Workers = {w1}
    MaxBackoff = 1
    MaxCrashes = 0
    MaxAborts = 1
    MaxResends = 0
    Schedules = {s1, s2}
    Schedulers = {p1, p2}
    Requests = {p1, p2}
    Cron <- Kinds
    Interval = 2
    MaxSkew = 1
    MaxTime = 3
    MaxStops = 1
    Template <- Owners
    Managed = {s1}
    DefaultQueue = q1
    DefaultMaxRetries = 1
    MaxFailures = 1
INVARIANTS
    AtMostOncePerRun
    OneJobPerRun
PROPERTIES
    KeepsLedger
    DueRunClaimed
    PartsKeepTheirSpecs
    DueRunIsWorkedOff
CHECK_DEADLOCK FALSE
