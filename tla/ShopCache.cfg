\* Two requests and a refresh of one replica, one update, one delayed write.
SPECIFICATION FairSpec
CONSTANTS
    r1 = r1
    r2 = r2
    g1 = g1
    w1 = w1
    p1 = p1
    Replicas = {p1}
    Requests = {r1, r2}
    Workers = {g1}
    Writers = {w1}
    ReplicaOf <- MCReplicaOf
    MaxLate = 1
    None = None
CHECK_DEADLOCK FALSE
INVARIANTS
    NoStaleFill
    CloseWaits
    FreshAnswers
PROPERTIES
    LeaseExclusive
    TasksEnd
