SPECIFICATION CacheSpec
CONSTANTS
    Clients = {1, 2}
    Ops = {1, 2}
    Items = {1}
    Watches <- BothWatched
    Final <- BothFinal
    HistoryLimit = 2
    OperationLimit = 1
    MaxBacklog = 0
    MaxEvictions = 1
    MaxDrops = 1
    MaxRestarts = 1
    MaxFaults = 1
    MaxTroubles = 3
    MaxStreams = 1
INVARIANTS
    CacheTypeOK
    FinishedShowsAll
    ChosenAreFollowed
PROPERTIES
    FramesFollow
    EventuallyShown
