CONSTANTS
    Feeds = {f1, f2}
    Sources = {"normal", "zmq"}
    ThresholdCells <- OneThreshold
    Triggers = {"benchmark"}
    Books <- TickerBooks
    TickerValidity = 0
    ThresholdValidity = 0
    MaxPublished = 1
    MaxTime = 2
    MaxRestart = 1
SPECIFICATION FairSpec
INVARIANTS
    CopyIntact
    NewestWins
PROPERTIES
    EvaluatedForward
    FeedGetsOn
    ReadyIsEvaluated
CHECK_DEADLOCK FALSE
