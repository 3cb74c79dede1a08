SPECIFICATION FairSpec
CONSTANTS
    k1 = k1
    k2 = k2
    r1 = r1
    r2 = r2
    w1 = w1
    w2 = w2
    j1 = j1
    j2 = j2
    m1 = m1
    m2 = m2
    Key = {k1, k2}
    Request = {r1, r2}
    KeyOf <- TwoOrders
    Worker = {w1}
    Job = {j1}
    Message = {m1}
    NoRow = NoRow
    BatchSize = 1
    MaxReceive = 1
    Limit = 1
    MaxFaults = 1
CHECK_DEADLOCK FALSE
PROPERTIES ExactlyOnce
