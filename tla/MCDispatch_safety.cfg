SPECIFICATION Spec
CONSTANTS
    q1 = q1
    q2 = q2
    Ids = {j1, j2}
    NoId = NoId
    Tenants = {t1}
    QueueNames = {q1, q2}
    Watched <- TwoQueues
    Budgets = {0, 3}
    PromoteBatch = 1
    Workers = {w1, w2}
    MaxBackoff = 3600
    Requests = {r1, r2}
    MaxCrashes = 2
    MaxAborts = 1
    MaxResends = 1
SYMMETRY Symmetry
INVARIANTS
    TypeOK
    ExclusiveRun
    DeadLetterMatchesFailed
    RetryBudget
    ColumnsAgree
    NoLostJob
    SingleToken
    OwnQueue
PROPERTY
    FollowsLifecycle
CHECK_DEADLOCK FALSE
