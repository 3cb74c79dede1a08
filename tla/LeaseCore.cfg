SPECIFICATION Spec
CONSTANTS
    blue = blue
    green = green
    Cluster = {blue, green}
    NoOne = NoOne
    Missing = Missing
    TTL = 1
    Skew <- NoSkew
    Period = 3
    Patience = 0
    Lag = {"cronjob"}
    QuickDrain = FALSE
    MaxTime = 2
    Quiet = 1
    MaxInits = 1
    MaxHandoffs = 2
    MaxFails = 1
SYMMETRY Colors
CHECK_DEADLOCK FALSE
INVARIANTS TypeOK ClaimJustified DrainingIsOff
PROPERTIES LiveLeaseIsNotTaken UninitialisedIsNeverHeld ReleaseIsSwitchedOff ReleaseIsDrained
