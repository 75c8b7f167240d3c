SPECIFICATION AttemptsFairSpec
CONSTANTS
    q1 = q1
    Ids = {j1}
    NoId = NoId
    Tenants = {t1}
    QueueNames = {q1}
    Watched <- OneQueue
    Budgets = {0, 2}
    PromoteBatch = 1
    Workers = {w1, w2}
    MaxBackoff = 3600
    Requests = {r1, r2}
    MaxCrashes = 1
    MaxAborts = 1
    MaxResends = 1
    MaxReruns = 1
INVARIANTS
    SucceedsAtMostOnce
    OutcomeFitsBody
    TimerShowsRest
    CountersTellEnds
PROPERTIES
    EndsAsItsBodySays
    BackoffHonoured
CHECK_DEADLOCK FALSE
