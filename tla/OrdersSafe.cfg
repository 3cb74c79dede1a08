SPECIFICATION Spec
CONSTANTS
    k1 = k1
    k2 = k2
    r1 = r1
    r2 = r2
    w1 = w1
    w2 = w2
    j1 = j1
    j2 = j2
    m1 = m1
    m2 = m2
    Key = {k1}
    Request = {r1, r2}
    KeyOf <- Retrying
    Worker = {w1, w2}
    Job = {j1, j2}
    Message = {m1, m2}
    NoRow = NoRow
    BatchSize = 1
    MaxReceive = 2
    Limit = 1
    MaxFaults = 1
SYMMETRY Alike
CHECK_DEADLOCK FALSE
INVARIANTS TypeOK ConfirmedIsStored MessageIsCommitted OneEffect RunsAreUnique
