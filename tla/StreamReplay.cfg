SPECIFICATION Spec
CONSTANTS
    Clients = {c1, c2}
    Ops = {1}
    Items = {1, 2}
    Watches <- SameWatches
    Final <- SoonFinal
    HistoryLimit = 2
    OperationLimit = 1
    MaxBacklog = 0
    MaxEvictions = 0
    MaxDrops = 1
    MaxRestarts = 1
    MaxFaults = 1
    MaxTroubles = 2
INVARIANTS
    ReaderIsCurrent
    EndIsFinal
PROPERTIES
    SequencesIncrease
    NoGap
    EventuallyFinal
