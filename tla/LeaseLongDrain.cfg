SPECIFICATION Spec
CONSTANTS
    blue = blue
    green = green
    Cluster = {blue, green}
    NoOne = NoOne
    Missing = Missing
    TTL = 3
    Skew <- NoSkew
    Period = 1
    Patience = 3
    Lag = {}
    QuickDrain = FALSE
    MaxTime = 6
    Quiet = 6
    MaxInits = 1
    MaxHandoffs = 1
    MaxFails = 0

CHECK_DEADLOCK FALSE

INVARIANTS WorkIsExclusive

