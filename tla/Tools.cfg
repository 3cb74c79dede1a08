SPECIFICATION Spec
CONSTANTS
    blue = blue
    green = green
    Cluster = {blue, green}
    First = blue
    SlotTime = 6
    Grace = 1
    Deadline = 4
    StartUp = 1
    Fence = 2
    MaxFaults = 1
    MaxTime = 19
    MaxMoves = 2
    MaxOrders = 4
    MaxMoment = 6
    Field = {"price", "status", "generated"}
    Noisy = {"generated"}
    Null = "null"
    MaxRequests = 300
    MinSamples = 50
    MaxMismatch = 100
    PlatformNamespaces = {"keda"}
    Clusters <- Things
CHECK_DEADLOCK FALSE
INVARIANTS SlotsAreRun OverlapIsTold GateIsSound PlanIsSound
PROPERTIES  FlawIsSeen
