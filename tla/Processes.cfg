SPECIFICATION ProcessFairSpec
CONSTANTS
    Clients = {c1, c2, c3}
INVARIANTS
    PoolsOutliveCalls
    CleanExitCutNothing

    
CHECK_DEADLOCK FALSE
