SPECIFICATION FairSpec
CONSTANTS
    blue = blue
    green = green
    w0 = w0
    w1 = w1
    w2 = w2
    e1 = e1
    e2 = e2
    p1 = p1
    Color = {blue, green}
    First = blue
    Leading = blue
    Other <- OtherColor
    Write = {w0, w1}
    Base = w0
    Pod = {p1}
    Engine = {e1, e2}
    NoColor = NoColor
    Targets = {blue, green}
    ClearsToken = TRUE
    MaxRuns = 3
    MaxStops = 1
    MaxPoints = 1
CHECK_DEADLOCK FALSE
INVARIANTS TypeOK OneWriter NoWriteLost Handover
PROPERTIES AnnouncedIsWritable StoreSpec WritesResume
