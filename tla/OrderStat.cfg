CONSTANTS
    Checkpoints = {1, 2}
    Hour = 2
    Grace = 1
    NoRow = NoRow
    MaxFill = 2
    MaxTime = 5
    MaxCrash = 1
SPECIFICATION FairSpec
INVARIANTS
    TypeOK
    NotTooEarly
    CheckpointsInOrder
    LostOnlyInRace
PROPERTIES
    PriceKept
    EvaluatedInTheEnd
