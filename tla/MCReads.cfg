SPECIFICATION ReadsSpec
CONSTANTS
    q1 = q1
    q2 = q2
    Ids = {j1, j2}
    NoId = NoId
    Tenants = {t1, t2}
    QueueNames = {q1, q2}
    Watched <- OneQueue
    Budgets = {2}
    PromoteBatch = 1
    Workers = {w1}
    MaxBackoff = 1
    Requests = {r1}
    MaxCrashes = 0
    MaxAborts = 0
    MaxResends = 0
    Configured = {q1}
    DefaultListLimit = 1
    MaxListLimit = 2
    RecentJobsLimit = 1
    Limits = {0, 2, 3}
    StatusFilters = {}
SYMMETRY Symmetry
INVARIANTS
    PagingSkipsOnlyTies
    TotalBacksPage
    DashboardAddsUp
    BacklogIsShown
CHECK_DEADLOCK FALSE
