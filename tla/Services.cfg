\* The small components, one at a time.
SPECIFICATION MCSpec
CONSTANTS
    o1 = o1
    o3 = o3
    u1 = u1
    u2 = u2
    v1 = v1
    t1 = t1
    None = None
    Keep = Keep
    \* the flash sale: two buyers, one consumer, one restart of Redis
    OrderIds = {o1, o3}
    Users = {u1, u2}
    Vouchers = {v1}
    UserOf <- MCUserOf
    VoucherOf <- MCVoucherOf
    InitialStock <- MCStock
    Garbage = {}
    Consumers = {c1}
    Batch = 1
    MaxRedisCrash = 1
    \* scrolling
    Posts <- MCPosts
    ScoreOf <- MCScoreOf
    MemberOf <- MCMemberOf
    PageSize = 2
    \* nearby shops
    Replicas = {r1, r2}
    Shops = {s1}
    Types = {t1, t2}
    Queries = {q1}
    MaxChanges = 2
    MaxFaults = 2
    \* login, with counters that refuse the third attempt
    Clients = {c1, c2}
    MaxTries = 2
    MaxCodes = 2
    MaxInserts = 2
    \* edits of profiles on the practice server
    Fields = {f1, f2}
    MaxEdits = 2
    \* sign-in over two months of three days
    Requests = {q1, q2}
    Months = 2
    MonthLength = 3
    \* ids around midnight, the counter of the first day new or near its end
    LastSecond = 3
    DayLength = 2
    Span = 4
    Earlier <- MCEarlier
    MaxLosses = 1
    \* the practice shop cache
    Readers = {q1, q2}
    Writers = {c1, c2}
    MaxUpdates = 2
    PracticeFaults = 1
    \* start and stop
    MaxRequests = 2
    MaxRefreshes = 2
    \* migrations, two of the three with the seed
    Runs = {m1, m2, m3}
    Seeds = {m1, m2}
    Length <- MCLength
    UserAt = 2
CHECK_DEADLOCK FALSE
INVARIANTS
    ServicesTypeOK
    ScrollComplete
    NearbyComplete
    LoginsAgree
    LockoutNeedsFault
    IdsUnique
    StreakRight
    LedgerIsTrue
PROPERTIES
    GeoHeals
    StatusIsFinal
    PracticeFresh
    ShutsDown
