SPECIFICATION Spec
CONSTANTS
    Clients = {c1, c2}
    Ops = {1}
    Items = {1, 2}
    Watches <- SameWatches
    Final <- SameFinal
    HistoryLimit = 3
    OperationLimit = 1
    MaxBacklog = 0
    MaxEvictions = 0
    MaxDrops = 1
    MaxRestarts = 1
    MaxFaults = 0
    MaxTroubles = 2
SYMMETRY ClientSymmetry
INVARIANTS
    EndShowsFinal
