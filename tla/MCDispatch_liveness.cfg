SPECIFICATION FairSpec
CONSTANTS
    q1 = q1
    q2 = q2
    Ids = {j1, j2}
    NoId = NoId
    Tenants = {t1}
    QueueNames = {q1, q2}
    Watched <- TwoQueues
    Budgets = {2}
    PromoteBatch = 2
    Workers = {w1, w2}
    MaxBackoff = 3600
    Requests = {r1}
    MaxCrashes = 0
    MaxAborts = 0
    MaxResends = 1
PROPERTIES
    WaitsOnlyBehindBusy
    CancelledIdDrains
CHECK_DEADLOCK FALSE
