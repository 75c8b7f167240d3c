SPECIFICATION SchedulerSpec
CONSTANTS
    s1 = s1
    Schedules = {s1}
    Schedulers = {p1}
    Cron <- OnlyNever
    Interval = 2
    MaxSkew = 1
    MaxTime = 3
    MaxStops = 0
INVARIANT
    NextRunInFuture
CHECK_DEADLOCK FALSE
