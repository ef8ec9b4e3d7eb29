SPECIFICATION Spec
CONSTANTS
    Workers = {w1}
    NoWorker = NoWorker
    Ops = {1}
    Items = {1, 2}
    Seats = {"s1", "s2"}
    OpOf <- OneOpOf
    SeatOf <- OneSeatOf
    OpType <- OneType
    NoDesktop = {}
    NoSnapshot = {}
    WaveSize = 1
    PveFaults = TRUE
    MaxMishaps = 0
    MaxFaults = 1
INVARIANTS
    SeatShowsResult
