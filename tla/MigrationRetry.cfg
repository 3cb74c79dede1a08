SPECIFICATION Spec
CONSTANTS
    blue = blue
    green = green
    catalog = catalog
    orders = orders
    NoColor = NoColor
    Color = {blue, green}
    First = blue
    Other <- OtherColor
    Service = {catalog, orders}
    Order <- CatalogFirst
    Steps <- TwoSteps
    Hold = 3
    Interval = 2
    Good <- AtTheLimits
    Bad <- BeyondThem
    Few <- TooFew
    MinRequests = 20
    MaxErrors = 1
    MinP95 = 3
    MaxP95Ratio = 150
    MaxMigrations = 1
    MaxFaults = 0
CHECK_DEADLOCK FALSE
INVARIANTS BreachRestoresAll
