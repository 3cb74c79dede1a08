SPECIFICATION Spec
CONSTANTS
    blue = blue
    green = green
    w = w
    s = s
    Cluster = {blue, green}
    NoOne = NoOne
    Worker = {w}
    Sweeper = {s}
    ClusterOf <- Home
    Cache = 1
    CallTime = 1
    FetchTime = 1
    UnitTime = 1
    BatchSize = 2
    MaxTime = 7
CHECK_DEADLOCK FALSE
INVARIANTS TypeOK AnswersAreRecent
PROPERTIES StartsAreRecent
