SPECIFICATION AccountsSpec
CONSTANTS
    d = d
    Tenants = {d, t1, t2}
    DefaultTenant = d
    Users = {u1, u2}
    Emails = {e1, e2}
    Tokens = {s1, s2, s3}
    Keys = {k1, k2}
    Requests = {r1, r2}
    None = None
    SessionTTL = 2
SYMMETRY Symmetry
INVARIANT
    AccountsPairUp
PROPERTIES
    KeysChangeByOwner
    EndedSessionRefused
CHECK_DEADLOCK FALSE
