CONSTANTS
    Writers = {w1, w2}
    Main = {w1}
    NoOrder = NoOrder
    Validity = 0
    MaxTime = 2
    MaxGen = 2
    MaxRestart = 1
SPECIFICATION FairSpec
INVARIANTS
    TypeOK
    MutualExclusion
    PlacedIntact
    PlacedOnceInOrder
PROPERTIES
    CellNeverGoesBack
    RefinesMailbox
    NewestIsTaken
CHECK_DEADLOCK FALSE
