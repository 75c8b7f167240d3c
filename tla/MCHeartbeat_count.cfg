SPECIFICATION HeartbeatSpec
CONSTANTS
    Processes = {p1, p2}
    Interval = 2
    TTL = 6
    MaxLate = 1
SYMMETRY Symmetry
INVARIANTS
    KeyFollowsWorker
    CountIsBracketed
