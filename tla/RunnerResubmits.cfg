SPECIFICATION Spec
CONSTANTS
    Workers = {w1, w2}
    NoWorker = NoWorker
    Ops = {1}
    Items = {1, 2}
    Seats = {"s1", "s2"}
    OpOf <- OneOpOf
    SeatOf <- OneSeatOf
    OpType <- OneType
    NoDesktop = {}
    NoSnapshot = {}
    WaveSize = 1
    PveFaults = TRUE
    MaxMishaps = 1
    MaxFaults = 0
INVARIANTS
    NoBlindResubmission
