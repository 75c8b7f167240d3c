SPECIFICATION ApiSpec
CONSTANTS
    q1 = q1
    t1 = t1
    t2 = t2
    u1 = u1
    u2 = u2
    e1 = e1
    e2 = e2
    k1 = k1
    k2 = k2
    s1 = s1
    Ids = {j1}
    NoId = NoId
    Tenants = {d, t1, t2}
    DefaultTenant = d
    QueueNames = {q1}
    Watched <- OneQueue
    Budgets = {2}
    PromoteBatch = 1
    Workers = {w1}
    MaxBackoff = 1
    Requests = {r1, r2}
    MaxCrashes = 0
    MaxAborts = 1
    MaxResends = 0
    Users = {u1, u2}
    Emails = {e1, e2}
    Tokens = {s1}
    Keys = {k1, k2}
    None = None
    SessionTTL = 1
    Owner <- Holders
    Account <- TwoAccounts
SYMMETRY Symmetry
INVARIANT
    AnswersWereTrue
PROPERTY
    OnlyOwnersMoveJobs
CHECK_DEADLOCK FALSE
