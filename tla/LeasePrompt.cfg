SPECIFICATION Spec
CONSTANTS
    blue = blue
    green = green
    Cluster = {blue, green}
    NoOne = NoOne
    Missing = Missing
    TTL = 3
    Skew <- GreenAhead
    Period = 1
    Patience = 3
    Lag = {}
    QuickDrain = TRUE
    MaxTime = 6
    Quiet = 6
    MaxInits = 1
    MaxHandoffs = 2
    MaxFails = 0
CHECK_DEADLOCK FALSE
INVARIANTS OnlyHolderIsOn WorkIsExclusive
PROPERTIES Singletons
