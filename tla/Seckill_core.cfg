\* No Redis loss: two consumers, two units of stock, three attempts by two users.
SPECIFICATION Spec
CONSTANTS
    o1 = o1
    o2 = o2
    o3 = o3
    u1 = u1
    u2 = u2
    v1 = v1
    c1 = c1
    c2 = c2
    g1 = g1
    OrderIds = {o1, o2, o3}
    Users = {u1, u2}
    Vouchers = {v1}
    UserOf <- MCUserOf
    VoucherOf <- MCVoucherOf
    InitialStock <- MCStock2
    Garbage = {}
    Consumers = {c1, c2}
    Batch = 2
    MaxRedisCrash = 0
    None = None
SYMMETRY MCSymmetry
INVARIANTS
    AcceptedIsHonoured
PROPERTIES
    KeepsPromise
