SPECIFICATION FairSpec
CONSTANTS
    blue = blue
    green = green
    Cluster = {blue, green}
    NoOne = NoOne
    Missing = Missing
    TTL = 1
    Skew <- NoSkew
    Period = 1
    Patience = 3
    Lag = {}
    QuickDrain = FALSE
    MaxTime = 3
    Quiet = 1
    MaxInits = 1
    MaxHandoffs = 1
    MaxFails = 1
CHECK_DEADLOCK FALSE
PROPERTIES WishIsGranted
