CONSTANTS
    Symbols = {s1, s2}
    MinuteLimit = 2
    SecondLimit = 1
    MinuteDuration = 3
    SecondDuration = 1
    IntervalDuration = 1
    MaxTime = 4
SPECIFICATION Spec
INVARIANTS
    TypeOK
    OneStraggler
    PlacedRate
