SPECIFICATION Spec
CONSTANTS
    Workers = {w1}
    NoWorker = NoWorker
    Ops = {1, 2}
    Items = {1, 2, 3, 4, 5}
    Seats = {"s1", "s2", "s3", "s4"}
    OpOf <- MixedOpOf
    SeatOf <- MixedSeatOf
    OpType <- MixedTypes
    NoDesktop = {1}
    NoSnapshot = {1}
    WaveSize = 2
    PveFaults = TRUE
    MaxMishaps = 0
    MaxFaults = 1
INVARIANTS
    TypeOK
    TerminalIsConsistent
    NoSilentTask
    WaveIsBounded
    VmIsExclusive
    PowerIsEarned
