SPECIFICATION Spec
CONSTANTS
    Workers = {w1, w2}
    NoWorker = NoWorker
    Ops = {1, 2}
    Items = {1, 2}
    Seats = {"s1"}
    OpOf <- PairOpOf
    SeatOf <- PairSeatOf
    OpType <- PairTypes
    NoDesktop = {}
    NoSnapshot = {}
    WaveSize = 1
    PveFaults = FALSE
    MaxMishaps = 0
    MaxFaults = 0
INVARIANTS
    VmIsExclusive
