SPECIFICATION InsistentSpec
CONSTANTS
    q1 = q1
    q2 = q2
    Ids = {j1}
    NoId = NoId
    Tenants = {t1}
    QueueNames = {q1}
    Watched <- OneQueue
    Budgets = {2}
    PromoteBatch = 1
    Workers = {w1}
    MaxBackoff = 3600
    Requests = {r1}
    MaxCrashes = 0
    MaxAborts = 1
    MaxResends = 0
PROPERTY PersistedJobGetsQueued
CHECK_DEADLOCK FALSE
