CONSTANTS
    Symbols = {s1}
    Updaters = {u1, u2}
    LocalIps = {l1, l2}
    RemoteIps = {r1}
    NoPair = NoPair
    Capacity = 2
    MaxWrapper = 3
SPECIFICATION Spec
INVARIANTS
    StoppedConnectsOnce
    LiveIsMapped
    ServiceHasLimiter
    RemovedNeverFound
