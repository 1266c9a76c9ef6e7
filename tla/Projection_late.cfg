\* The same instance, against what the locks are said to guarantee.
SPECIFICATION Spec
CONSTANTS
    b1 = b1
    u1 = u1
    u2 = u2
    u3 = u3
    c1 = c1
    c2 = c2
    Blogs = {b1}
    Users = {u1, u2, u3}
    Id <- MCId
    Legacy <- MCLegacy
    Calls = {c1, c2}
    Requests <- MCRequests
    MaxLate = 1
    MaxLoss = 0
PROPERTIES
    CurrentStaysCurrent
