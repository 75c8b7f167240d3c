SPECIFICATION MigrateFairSpec
CONSTANTS
    old = old
    new = new
    other = other
    Commands = {old, new, other}
    Files <- TwoReleases
    MaxFailures = 1
    MaxStarts = 4
INVARIANTS
    AppliedOnce
    InOrder
PROPERTY
    SomeoneFinishes
CHECK_DEADLOCK FALSE
