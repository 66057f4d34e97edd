CONSTANTS
    Interval = 2
    MaxDelay = 1
    MaxPrice = 3
    MaxTickers = 3
    MaxRequests = 1
    MaxTime = 4
SPECIFICATION Spec
INVARIANTS
    ExtremesAttained
    FreshCovered
PROPERTY RequestReflected
