\* Liveness under Fairness: two consumers share one order and one malformed message.
SPECIFICATION FairSpec
CONSTANTS
    o1 = o1
    o2 = o2
    o3 = o3
    u1 = u1
    u2 = u2
    v1 = v1
    c1 = c1
    c2 = c2
    g1 = g1
    OrderIds = {o1}
    Users = {u1, u2}
    Vouchers = {v1}
    UserOf <- MCUserOf
    VoucherOf <- MCVoucherOf
    InitialStock <- MCStock1
    Garbage = {g1}
    Consumers = {c1, c2}
    Batch = 1
    MaxRedisCrash = 0
    None = None
PROPERTIES
    Quarantines
    KeepsPromiseInTime
