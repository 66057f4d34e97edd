CONSTANTS
    InitialPosition = 3
    OrderSize = 2
    MaxPosition = 4
    StreamDrops = FALSE
    MaxOrders = 2
SPECIFICATION PositionSpec
PROPERTY CloseOnlyNeverCrosses
