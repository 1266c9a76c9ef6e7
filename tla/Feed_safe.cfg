\* Three posts, overlapping passes, rebuilds in two pages; Redis loses something once.
SPECIFICATION Spec
CONSTANTS
    b1 = b1
    b2 = b2
    b3 = b3
    f1 = f1
    p1 = p1
    p2 = p2
    r1 = r1
    r2 = r2
    Blogs = {b1, b2, b3}
    Fans = {f1}
    Passes = {p1, p2}
    Readers = {r1}
    FanOf <- MCFanOf
    BatchSize = 2
    HistorySize = 2
    MaxLoss = 1
SYMMETRY MCSymmetry
INVARIANTS
    DeliveredIsReadable
    RebuildRestores
