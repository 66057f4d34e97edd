CONSTANTS
    InitialPosition = 3
    OrderSize = 2
    MaxPosition = 3
    StreamDrops = TRUE
    MaxOrders = 3
SPECIFICATION PositionFairSpec
PROPERTIES
    Converges
    CrossesOnlyMisled
