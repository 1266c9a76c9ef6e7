\* Two starting processes, one campaign, two users, one loss in Redis.
SPECIFICATION FairSpec
CONSTANTS
    v1 = v1
    o1 = o1
    o2 = o2
    a = a
    b = b
    p1 = p1
    p2 = p2
    Vouchers = {v1}
    OrderIds = {o1, o2}
    UserOf <- MCUserOf
    VoucherOf <- MCVoucherOf
    InitialStock <- MCStock
    Processes = {p1, p2}
    MaxLoss = 1
INVARIANTS
    Backed
    RefusedOnlyIfTorn
    OnSale
PROPERTIES
    ComesUp
