\* The same instance, against the rule the two keys of ensureInbox stand for.
SPECIFICATION Spec
CONSTANTS
    b1 = b1
    b2 = b2
    b3 = b3
    f1 = f1
    p1 = p1
    p2 = p2
    r1 = r1
    r2 = r2
    Blogs = {b1, b2}
    Fans = {f1}
    Passes = {p1}
    Readers = {r1}
    FanOf <- MCFanOf
    BatchSize = 2
    HistorySize = 1
    MaxLoss = 1
INVARIANTS
    BothKeysMeanRestored
